---- MODULE Spec2Model ----
(***************************************************************************)
(* State-machine model of the kata-containers agent RPC service            *)
(* (src/agent/src/grpc.rs).  Every RPC handler is a sequence of steps; a   *)
(* step is one critical section of the sandbox mutex or one blocking       *)
(* call issued outside of it.  Collaborators that live outside grpc.rs     *)
(* (sandbox.rs, mount.rs, rustjail) are modelled by their contract.         *)
(***************************************************************************)
EXTENDS Integers, Sequences, FiniteSets, TLC

\* ------------------------------------------------------------------ bounds
NumThreads == 2
NumRemoveThreads == 1
NumSandboxThreads == 1
NumWorkers == 1
NumContainers == 2
NumMountPoints == 1
MaxStorages == 1
MaxRefcount == 2
MaxPid == 2
MaxFd == 8
MaxNamespaces == 3
MaxCalls == 2
MaxLen == 2

\* ------------------------------------------------------- program constants
\* the "no fd" value of do_wait_process's local exit_pipe_r
NoFd == -1

Threads == {<<"rpc", i>> : i \in 1..NumThreads}
\* the RPC threads that serve requests in the container-removal specification
SandboxThreads == {<<"rpc", i>> : i \in 1..NumSandboxThreads}
RemoveThreads == {<<"rpc", i>> : i \in 1..NumRemoveThreads}
Workers == {<<"worker", i>> : i \in 1..NumWorkers}
NoThread == <<>>
ContainerIds == 1..NumContainers
MountPoints == 1..NumMountPoints
Pids == 1..MaxPid
Fds == 1..MaxFd
ExecIds == {"", "e1"}
StorageLists == UNION {[1..n -> MountPoints] : n \in 0..MaxStorages}

VARIABLES
    lock,             \* holder of the Mutex<Sandbox>: a thread, a worker or NoThread
    running,          \* Sandbox.running
    shared_ns,        \* whether shared_ipcns / shared_utsns are set up
    containers,       \* Sandbox.containers: container id -> LinuxContainer
    container_mounts, \* Sandbox.container_mounts: container id -> Vec<mount point>
    storages,         \* Sandbox.storages: mount point -> refcount
    mounts,           \* Sandbox.mounts
    mounted,          \* kernel: the mount points that are mounted
    fdtab,            \* kernel: the open file descriptors
    th,               \* per RPC thread: position in its handler and its locals
    wk,               \* per RemoveContainer worker thread: position and locals
    chan,             \* per RPC thread: the mpsc channel of its RemoveContainer
    reply,            \* the RPC reply sent by the latest step, if it sent one
    timedOut,         \* history: the registered containers a RemoveContainer timed out on
    sender,           \* Sandbox.sender: whether the shutdown Sender is Some
    signals,          \* the number of values sent on the shutdown channel
    fn_arg,           \* the arguments of the function under test
    fn_res,           \* the latest result of the function under test
    fn_calls,         \* the number of times the function was applied
    fs_files,         \* file system: path under CONTAINER_BASE -> file or NoFile
    fs_dirs,          \* file system: directory under CONTAINER_BASE -> mode or NoDir
    rtnl,             \* Sandbox.rtnl: whether the netlink handle has been constructed
    kroutes           \* kernel: the routing table

sandboxVars == <<running, shared_ns, containers, container_mounts, storages, mounts>>
kernelVars == <<mounted, fdtab>>
threadVars == <<lock, th, wk, chan, reply, timedOut>>
shutdownVars == <<sender, signals>>
fnVars == <<fn_arg, fn_res, fn_calls>>
fsVars == <<fs_files, fs_dirs>>
netVars == <<rtnl, kroutes>>
vars == <<sandboxVars, kernelVars, threadVars, shutdownVars, fnVars, fsVars, netVars>>

\* ----------------------------------------------------------------- helpers
Range(s) == {s[i] : i \in DOMAIN s}
Remove(f, k) == [x \in DOMAIN f \ {k} |-> f[x]]
Put(f, k, v) == [x \in DOMAIN f \cup {k} |-> IF x = k THEN v ELSE f[x]]
Min(S) == CHOOSE x \in S : \A y \in S : x <= y

RECURSIVE LowestFree(_, _)
\* the kernel hands out the lowest unused descriptor numbers
LowestFree(free, n) ==
    IF n = 0 THEN <<>>
    ELSE <<Min(free)>> \o LowestFree(free \ {Min(free)}, n - 1)

\* ------------------------------------------------------------ file system
\* the length of the file a transfer copies, and of one chunk of it
FileSize == 4
ChunkLen == 2

\* paths are kept in parts: whether the path starts with CONTAINER_BASE
\* (line 1605), its parent directory, and the stem and the extension of its
\* file name; ext = "" is a file name without extension; the directory "../x"
\* is CONTAINER_BASE/../x, which the file system resolves to /run/x
FsDirs == {"x", "../x"}
FsExts == {"", "txt", "tmp"}
FsPaths == [base : {TRUE}, dir : FsDirs, stem : {"f"}, ext : FsExts]

\* the file system resolves the directory to a place outside CONTAINER_BASE
Escapes(dir) == dir = "../x"
NoFile == <<>>
NoDir == "absent"

IdleThread ==
    [pc |-> "idle", op |-> "none", cid |-> 0, eid |-> "", timeout |-> 0,
     m |-> <<>>, fd |-> NoFd, pid |-> 0, second |-> FALSE, was |-> FALSE,
     len |-> 0, req |-> <<>>]

NoReply ==
    [op |-> "none", cid |-> 0, eid |-> "", timeout |-> 0, err |-> "none",
     status |-> "none", stage |-> "none", m |-> <<>>, late |-> FALSE,
     fd |-> NoFd, second |-> FALSE, found |-> FALSE, closed |-> <<>>,
     stale |-> {}, open |-> {}, exit |-> 0, was |-> FALSE,
     pid |-> 0, init |-> FALSE, signal |-> 0, sent |-> 0, proc |-> <<>>,
     row |-> 0, col |-> 0, ioctl |-> <<>>, req |-> <<>>,
     routes |-> {}, len |-> 0, n |-> 0, wlen |-> 0, data |-> <<>>]

FreeWorker == [pc |-> "free", cid |-> 0, owner |-> NoThread]

Ready(t) == th[t].pc = "idle"

Call(op, cid, eid, timeout) ==
    [IdleThread EXCEPT !.op = op, !.cid = cid, !.eid = eid, !.timeout = timeout]

\* the handler of call r returns err at the named stage, and the service
\* replies status
Reply(r, stage, err, status) ==
    [NoReply EXCEPT !.op = r.op, !.cid = r.cid, !.eid = r.eid, !.timeout = r.timeout,
                    !.stage = stage, !.err = err, !.status = status,
                    !.late = r.cid \in timedOut, !.fd = r.fd, !.second = r.second,
                    !.was = r.was, !.len = r.len]

Returns(t) == [th EXCEPT ![t] = IdleThread]

ServiceInit ==
    /\ lock = NoThread
    /\ running = FALSE
    /\ shared_ns = FALSE
    /\ containers = <<>>
    /\ container_mounts = <<>>
    /\ storages = <<>>
    /\ mounts = <<>>
    /\ mounted = {}
    /\ fdtab = {}
    /\ th = [t \in Threads |-> IdleThread]
    /\ wk = [w \in Workers |-> FreeWorker]
    /\ chan = [t \in Threads |-> "empty"]
    /\ reply = NoReply
    /\ timedOut = {}
    /\ sender = TRUE
    /\ signals = 0
    /\ fs_files = [p \in FsPaths |-> NoFile]
    /\ fs_dirs = [d \in FsDirs |-> NoDir]
    /\ rtnl = FALSE
    /\ kroutes = {}

Init ==
    /\ ServiceInit
    /\ fn_arg = <<>>
    /\ fn_res = <<>>
    /\ fn_calls = 0

\* ------------------------------------------------- storage collaborators
\* Sandbox::set_sandbox_storage: take one more reference on a mount point
set_sandbox_storage(stor, mp) ==
    IF mp \in DOMAIN stor THEN [stor EXCEPT ![mp] = @ + 1] ELSE Put(stor, mp, 1)

RECURSIVE SetSandboxStorages(_, _)
SetSandboxStorages(stor, list) ==
    IF list = <<>> THEN stor
    ELSE SetSandboxStorages(set_sandbox_storage(stor, Head(list)), Tail(list))

\* mount::add_storages applied to the first k storages of the request: every
\* storage is mounted and referenced; k < Len(list) is a failure at storage k+1
add_storages(list, k) ==
    LET done == SubSeq(list, 1, k) IN
    [storages |-> SetSandboxStorages(storages, done),
     mounted  |-> mounted \cup Range(done),
     ok       |-> k = Len(list),
     m        |-> done]

AddStoragesEnabled(list) ==
    \A mp \in Range(list) :
        mp \in DOMAIN storages =>
            storages[mp] + Cardinality({i \in DOMAIN list : list[i] = mp}) <= MaxRefcount

\* mount::remove_mounts applied to the first k mount points of the list
remove_mounts(mnt, list, k) == mnt \ Range(SubSeq(list, 1, k))

\* Sandbox::unset_and_remove_sandbox_storage: drop one reference; when the
\* count reaches zero forget the storage and unmount it (which may fail)
unset_and_remove_sandbox_storage(stor, mnt, mp, fail) ==
    IF mp \notin DOMAIN stor
    THEN [stor |-> stor, mnt |-> mnt, ok |-> TRUE, last |-> FALSE]
    ELSE IF stor[mp] > 1
    THEN [stor |-> [stor EXCEPT ![mp] = @ - 1], mnt |-> mnt, ok |-> TRUE, last |-> FALSE]
    ELSE [stor |-> Remove(stor, mp),
          mnt  |-> IF fail THEN mnt ELSE mnt \ {mp},
          ok   |-> ~fail, last |-> TRUE]

\* ------------------------------------------------ rustjail collaborators
\* rustjail Process::new followed by the fork of LinuxContainer::start: every
\* process owns three stdio pipes and the read end of its exit pipe, and a
\* terminal process a pty master as well
NewProcess(eid, init, terminal, pid, fds) ==
    [exec_id |-> eid, pid |-> pid, init |-> init,
     parent_stdin  |-> fds[1],
     parent_stdout |-> fds[2],
     parent_stderr |-> fds[3],
     exit_pipe_r   |-> fds[4],
     term_master   |-> IF terminal THEN fds[5] ELSE NoFd,
     exit_code |-> 0, exited |-> FALSE]

FdsNeeded(terminal) == IF terminal THEN 5 ELSE 4

\* LinuxContainer::destroy, when it succeeds: every process of the container
\* is killed and the container is stopped
Destroyed(ctrs, cid) ==
    [ctrs EXCEPT ![cid].processes =
        [p \in DOMAIN @ |->
            IF @[p].exited THEN @[p]
            ELSE [@[p] EXCEPT !.exited = TRUE, !.exit_code = 137]]]

\* kernel: the pids of the processes that have not exited
LivePids ==
    UNION {{p \in DOMAIN containers[c].processes : ~containers[c].processes[p].exited}
           : c \in DOMAIN containers}

\* ------------------------------------------------------- RPC status codes
\* AgentService::create_container: any error of do_create_container is Internal
create_container_status(err) == IF err = "none" THEN "OK" ELSE "Internal"

\* AgentService::remove_container: any error of do_remove_container is Internal
remove_container_status(err) == IF err = "none" THEN "OK" ELSE "Internal"


\* --------------------------------------------------------- CreateContainer
\* do_create_container up to add_storages: validation of the request, the PCI
\* rescan, add_devices and add_storages (which locks the sandbox by itself)
do_create_container_storages(t, cids, lists, eids) ==
    /\ Ready(t)
    /\ \E cid \in cids, eid \in eids :
        LET r == Call("CreateContainer", cid, eid, 0) IN
        \/ \* no OCI spec, or a spec without Process: EINVAL
           /\ th' = Returns(t)
           /\ reply' = Reply(r, "validate", "EINVAL", create_container_status("EINVAL"))
           /\ UNCHANGED <<storages, mounted>>
        \/ \* rescan_pci_bus or add_devices fails
           /\ th' = Returns(t)
           /\ reply' = Reply(r, "devices", "EIO", create_container_status("EIO"))
           /\ UNCHANGED <<storages, mounted>>
        \/ /\ lock = NoThread
           /\ \E list \in lists :
                /\ AddStoragesEnabled(list)
                /\ \E k \in 0..Len(list) :
                    LET a == add_storages(list, k) IN
                    /\ storages' = a.storages
                    /\ mounted' = a.mounted
                    /\ IF a.ok
                       THEN /\ th' = [th EXCEPT ![t] = [r EXCEPT !.pc = "cc_lock", !.m = a.m]]
                            /\ reply' = NoReply
                       ELSE /\ th' = Returns(t)
                            /\ reply' = Reply(r, "storages", "EIO",
                                              create_container_status("EIO"))
    /\ UNCHANGED <<running, shared_ns, containers, container_mounts, mounts>>
    /\ UNCHANGED <<fdtab, lock, wk, chan, timedOut>>
    /\ UNCHANGED <<shutdownVars, netVars, fnVars, fsVars>>

\* the sandbox state after line 109 of do_create_container
InsertContainerMounts(cm, cid, m) == Put(cm, cid, m)

\* do_create_container from sandbox.lock() on: one critical section that
\* records the container's mounts, rewrites the namespaces, sets up the
\* bundle, constructs container and init process, starts it and registers it
do_create_container_locked(t, terminals) ==
    /\ th[t].pc = "cc_lock"
    /\ lock = NoThread
    /\ container_mounts' = InsertContainerMounts(container_mounts, th[t].cid, th[t].m)
    /\ \/ \* update_container_namespaces, setup_bundle, LinuxContainer::new,
          \* Process::new or ctr.start fails: the handler returns through `?`
          /\ \E stage \in {"namespaces", "bundle", "container", "start"} :
                reply' = Reply(th[t], stage, "EIO", create_container_status("EIO"))
          /\ UNCHANGED <<containers, fdtab>>
       \/ \E terminal \in terminals :
            LET n == FdsNeeded(terminal)
                free == Fds \ fdtab
                pid == Min(Pids \ LivePids)
            IN
            /\ Cardinality(free) >= n
            /\ Pids \ LivePids # {}
            /\ LET fds == LowestFree(free, n)
                   p == NewProcess(th[t].eid, TRUE, terminal, pid, fds)
                   ctr == [init_process_pid |-> pid, processes |-> (pid :> p)]
               IN
               /\ containers' = Put(containers, th[t].cid, ctr)
               /\ fdtab' = fdtab \cup Range(fds)
            /\ reply' = [Reply(th[t], "none", "none", create_container_status("none"))
                            EXCEPT !.m = th[t].m]
    /\ th' = Returns(t)
    /\ UNCHANGED <<lock, running, shared_ns, storages, mounts, mounted>>
    /\ timedOut' = IF th[t].cid \in DOMAIN containers' /\ containers' # containers
                    THEN timedOut \ {th[t].cid} ELSE timedOut
    /\ UNCHANGED <<wk, chan>>
    /\ UNCHANGED <<shutdownVars, netVars, fnVars, fsVars>>

\* --------------------------------------------------------- RemoveContainer
RECURSIVE UnsetLoop(_, _, _, _, _)
\* lines 203-205: unset_and_remove_sandbox_storage for every collected mount
\* point, in order, stopping at the first error; failAt names the element
\* whose removal fails (0: none)
UnsetLoop(stor, mnt, list, i, failAt) ==
    IF i > Len(list)
    THEN [stor |-> stor, mnt |-> mnt, ok |-> TRUE, valid |-> failAt = 0]
    ELSE LET u == unset_and_remove_sandbox_storage(stor, mnt, list[i], failAt = i) IN
         IF ~u.ok THEN [stor |-> u.stor, mnt |-> u.mnt, ok |-> FALSE, valid |-> TRUE]
         ELSE UnsetLoop(u.stor, u.mnt, list, i + 1, failAt)

\* lines 195-201: the container's mount points that are sandbox storages
CollectMounts(list, stor) == SelectSeq(list, LAMBDA mp : mp \in DOMAIN stor)

\* line 196: the mount table after remove_mounts(&mounts) unmounted the
\* first k of the container's mount points
UnmountContainerMounts(mnt, list, k) == remove_mounts(mnt, list, k)

\* mutant: the entry is left in place
RemoveEntry_kept(f, cid) == f

\* lines 206 and 208: a registry entry of the container is removed
RemoveEntry(f, cid) == Remove(f, cid)

\* lines 194-210 of do_remove_container, run with the lock held; ctrs is the
\* container registry the critical section starts from
Cleanup(t, ctrs) ==
    LET cid == th[t].cid
        list == IF cid \in DOMAIN container_mounts THEN container_mounts[cid] ELSE <<>>
    IN
    \E k \in 0..Len(list), failAt \in 0..Len(list) :
        LET mnt1 == UnmountContainerMounts(mounted, list, k)
            u == UnsetLoop(storages, mnt1, CollectMounts(list, storages), 1, failAt)
        IN
        IF k < Len(list)
        THEN \* remove_mounts failed at element k+1
             /\ failAt = 0
             /\ mounted' = mnt1
             /\ containers' = ctrs
             /\ UNCHANGED <<container_mounts, storages>>
             /\ reply' = Reply(th[t], "remove_mounts", "EIO",
                               remove_container_status("EIO"))
        ELSE /\ u.valid
             /\ mounted' = u.mnt
             /\ storages' = u.stor
             /\ IF u.ok
                THEN /\ container_mounts' = RemoveEntry(container_mounts, cid)
                     /\ containers' = RemoveEntry(ctrs, cid)
                     /\ reply' = [Reply(th[t], "none", "none",
                                        remove_container_status("none"))
                                    EXCEPT !.m = list]
                ELSE /\ container_mounts' = container_mounts
                     /\ containers' = ctrs
                     /\ reply' = Reply(th[t], "storage", "EIO",
                                       remove_container_status("EIO"))

\* the lock holder while ctr.destroy() of the timeout == 0 variant runs:
\* the guard taken at line 151 is still alive
SyncDestroyLock(t) == t

\* timeout == 0, lines 149-156: lock the sandbox and look the container up
do_remove_container_sync(t) ==
    /\ Ready(t)
    /\ lock = NoThread
    /\ \E cid \in ContainerIds :
        LET r == Call("RemoveContainer", cid, "", 0) IN
        IF cid \in DOMAIN containers
        THEN /\ th' = [th EXCEPT ![t] = [r EXCEPT !.pc = "rc_destroy"]]
             /\ lock' = SyncDestroyLock(t)
             /\ reply' = NoReply
        ELSE /\ th' = Returns(t)
             /\ reply' = Reply(r, "lookup", "EINVAL", remove_container_status("EINVAL"))
             /\ lock' = NoThread
    /\ UNCHANGED <<sandboxVars, kernelVars, wk, chan, timedOut>>
    /\ UNCHANGED <<shutdownVars, netVars, fnVars, fsVars>>

\* timeout == 0: ctr.destroy() returns, and on success the handler goes on
\* to lines 194-210 in the same critical section
do_remove_container_sync_destroyed(t) ==
    /\ th[t].pc = "rc_destroy"
    /\ \/ /\ reply' = Reply(th[t], "destroy", "EIO", remove_container_status("EIO"))
          /\ UNCHANGED <<containers, container_mounts, storages, mounted>>
       \/ Cleanup(t, Destroyed(containers, th[t].cid))
    /\ th' = Returns(t)
    /\ lock' = NoThread
    /\ timedOut' = timedOut \cap DOMAIN containers'
    /\ UNCHANGED <<running, shared_ns, mounts, fdtab, wk, chan>>
    /\ UNCHANGED <<shutdownVars, netVars, fnVars, fsVars>>

\* timeout != 0, lines 159-175: spawn the worker and wait on the channel
do_remove_container_spawn(t) ==
    /\ Ready(t)
    /\ \E cid \in ContainerIds, w \in Workers :
        /\ wk[w].pc = "free"
        /\ wk' = [wk EXCEPT ![w] = [pc |-> "w_lock", cid |-> cid, owner |-> t]]
        /\ th' = [th EXCEPT ![t] =
                    [Call("RemoveContainer", cid, "", 1) EXCEPT !.pc = "rc_recv"]]
    /\ chan' = [chan EXCEPT ![t] = "empty"]
    /\ reply' = NoReply
    /\ UNCHANGED <<sandboxVars, kernelVars, lock, timedOut>>
    /\ UNCHANGED <<shutdownVars, netVars, fnVars, fsVars>>

\* tx.send(val): the value reaches the handler unless its receiver is gone
Send(w, val) == IF wk[w].owner = NoThread THEN chan
                ELSE [chan EXCEPT ![wk[w].owner] = val]

\* the lock holder while ctr.destroy() runs on the worker thread: the guard
\* taken at line 165 is still alive
WorkerDestroyLock(w) == w

\* worker, lines 165-166 and 172-174: lock the sandbox, look the container up
worker_lock(w) ==
    /\ wk[w].pc = "w_lock"
    /\ lock = NoThread
    /\ IF wk[w].cid \in DOMAIN containers
       THEN /\ wk' = [wk EXCEPT ![w].pc = "w_destroy"]
            /\ lock' = WorkerDestroyLock(w)
            /\ UNCHANGED chan
       ELSE /\ chan' = Send(w, "EINVAL")
            /\ wk' = [wk EXCEPT ![w] = FreeWorker]
            /\ lock' = NoThread
    /\ reply' = NoReply
    /\ UNCHANGED <<sandboxVars, kernelVars, th, timedOut>>
    /\ UNCHANGED <<shutdownVars, netVars, fnVars, fsVars>>

\* mutant: the worker also unregisters the container it destroyed
WorkerDestroyed_unregistered(ctrs, cid) == Remove(ctrs, cid)

\* the registry after the worker's closure ran ctr.destroy(): the worker only
\* destroys, it unregisters nothing
WorkerDestroyed(ctrs, cid) == Destroyed(ctrs, cid)

\* worker, lines 167-171: ctr.destroy() returns, the result is sent and the
\* worker thread ends, which drops its guard
worker_destroyed(w) ==
    /\ wk[w].pc = "w_destroy"
    /\ \/ /\ chan' = Send(w, "UnknownErrno")
          /\ UNCHANGED containers
       \/ /\ chan' = Send(w, "0")
          /\ containers' = WorkerDestroyed(containers, wk[w].cid)
    /\ wk' = [wk EXCEPT ![w] = FreeWorker]
    /\ lock' = NoThread
    /\ UNCHANGED <<running, shared_ns, container_mounts, storages, mounts>>
    /\ reply' = NoReply
    /\ UNCHANGED <<mounted, fdtab, th, timedOut>>
    /\ UNCHANGED <<shutdownVars, netVars, fnVars, fsVars>>

\* lines 179-188: a value arrives within the timeout; the worker has ended,
\* so join() returns
do_remove_container_recv(t) ==
    /\ th[t].pc = "rc_recv"
    /\ chan[t] # "empty"
    /\ IF chan[t] = "0"
       THEN /\ th' = [th EXCEPT ![t].pc = "rc_relock"]
            /\ reply' = NoReply
       ELSE /\ th' = Returns(t)
            /\ reply' = Reply(th[t], "worker", chan[t], remove_container_status(chan[t]))
    /\ chan' = [chan EXCEPT ![t] = "empty"]
    /\ UNCHANGED <<sandboxVars, kernelVars, lock, wk, timedOut>>
    /\ UNCHANGED <<shutdownVars, netVars, fnVars, fsVars>>

\* lines 183-185: recv_timeout expires; the handler returns ETIME, the
\* receiver is dropped and the worker is left running
do_remove_container_timeout(t) ==
    /\ th[t].pc = "rc_recv"
    /\ chan[t] = "empty"
    /\ th' = Returns(t)
    /\ reply' = Reply(th[t], "recv", "ETIME", remove_container_status("ETIME"))
    /\ wk' = [w \in Workers |->
                IF wk[w].owner = t THEN [wk[w] EXCEPT !.owner = NoThread] ELSE wk[w]]
    /\ timedOut' = timedOut \cup ({th[t].cid} \cap DOMAIN containers)
    /\ UNCHANGED <<sandboxVars, kernelVars, lock, chan>>
    /\ UNCHANGED <<shutdownVars, netVars, fnVars, fsVars>>

\* line 191 and lines 194-210: lock again and clean up
do_remove_container_relock(t) ==
    /\ th[t].pc = "rc_relock"
    /\ lock = NoThread
    /\ Cleanup(t, containers)
    /\ th' = Returns(t)
    /\ timedOut' = timedOut \cap DOMAIN containers'
    /\ UNCHANGED <<lock, running, shared_ns, mounts, fdtab, wk, chan>>
    /\ UNCHANGED <<shutdownVars, netVars, fnVars, fsVars>>

\* ------------------------------------------------------------ processes
\* rustjail LinuxContainer::get_process: the processes whose exec_id is eid
get_process(ctr, eid) == {p \in DOMAIN ctr.processes : ctr.processes[p].exec_id = eid}

\* find_process: the pids the lookup can resolve to; none when the container
\* or the process is unknown
find_process(cid, eid, init) ==
    IF cid \notin DOMAIN containers THEN {}
    ELSE IF init /\ eid = ""
    THEN {containers[cid].init_process_pid} \cap DOMAIN containers[cid].processes
    ELSE get_process(containers[cid], eid)

\* the reaper: a process exits; its exit_code is written under the sandbox
\* lock before the write end of its exit pipe is closed
process_exits ==
    /\ lock = NoThread
    /\ \E c \in DOMAIN containers, code \in {0, 1} :
        \E p \in DOMAIN containers[c].processes :
            /\ ~containers[c].processes[p].exited
            /\ containers' = [containers EXCEPT ![c].processes[p] =
                                [@ EXCEPT !.exited = TRUE, !.exit_code = code]]
    /\ reply' = NoReply
    /\ UNCHANGED <<running, shared_ns, container_mounts, storages, mounts>>
    /\ UNCHANGED <<kernelVars, lock, th, wk, chan, timedOut>>
    /\ UNCHANGED <<shutdownVars, netVars, fnVars, fsVars>>

\* a read of an exit pipe blocks while the descriptor is the read end of the
\* exit pipe of a registered process that has not exited
ReadBlocks(fd) ==
    \E c \in DOMAIN containers : \E p \in DOMAIN containers[c].processes :
        /\ containers[c].processes[p].exit_pipe_r = fd
        /\ ~containers[c].processes[p].exited

\* ------------------------------------------------------------- WaitProcess
\* AgentService::wait_process: an error of do_wait_process is Internal
wait_process_status(err) == IF err = "none" THEN "OK" ELSE "Internal"

\* another WaitProcess that resolved the same process is still in progress
WaitInProgress(cid, pid) ==
    \E u \in Threads : /\ th[u].pc \in {"wp_read", "wp_relock"}
                       /\ th[u].cid = cid /\ th[u].pid = pid

\* mutant: the guard is not dropped before the blocking read
WaitProcessDropLock_held(t) == t

\* line 278, drop(sandbox): the lock holder after the lookup
WaitProcessDropLock(t) == NoThread

\* lines 271-278: under the lock, find the process and copy exit_pipe_r and pid
do_wait_process_lookup(t, eids) ==
    /\ Ready(t)
    /\ lock = NoThread
    /\ \E cid \in ContainerIds, eid \in eids :
        LET r == Call("WaitProcess", cid, eid, 0)
            pids == find_process(cid, eid, FALSE)
        IN
        IF pids = {}
        THEN /\ th' = Returns(t)
             /\ reply' = Reply(r, "lookup", "ErrorCode", wait_process_status("ErrorCode"))
             /\ lock' = NoThread
        ELSE \E pid \in pids :
                LET p == containers[cid].processes[pid] IN
                /\ th' = [th EXCEPT ![t] =
                            [r EXCEPT !.pc = IF p.exit_pipe_r # NoFd
                                             THEN "wp_read" ELSE "wp_relock",
                                      !.fd = p.exit_pipe_r, !.pid = pid,
                                      !.second = WaitInProgress(cid, pid)]]
                /\ reply' = NoReply
                /\ lock' = WaitProcessDropLock(t)
    /\ UNCHANGED <<sandboxVars, kernelVars, wk, chan, timedOut>>
    /\ UNCHANGED <<shutdownVars, netVars, fnVars, fsVars>>

\* lines 280-284: the blocking read of the exit pipe; its result is ignored
do_wait_process_read(t) ==
    /\ th[t].pc = "wp_read"
    /\ ~ReadBlocks(th[t].fd)
    /\ th' = [th EXCEPT ![t].pc = "wp_relock"]
    /\ reply' = NoReply
    /\ UNCHANGED <<sandboxVars, kernelVars, lock, wk, chan, timedOut>>
    /\ UNCHANGED <<shutdownVars, netVars, fnVars, fsVars>>

\* lines 293-307: the slots in the order of the take() and close calls
CloseOrder == <<"parent_stdin", "parent_stdout", "parent_stderr", "term_master", "exit_pipe_r">>

\* lines 293-307: the slots that are set, whose descriptors are closed, in
\* the order of the close calls
CloseAllFds(p) == SelectSeq(CloseOrder, LAMBDA slot : p[slot] # NoFd)

\* lines 293-307: the process record after every slot was take()n
TakeAllFds(p) ==
    [p EXCEPT !.parent_stdin = NoFd, !.parent_stdout = NoFd, !.parent_stderr = NoFd,
              !.term_master = NoFd, !.exit_pipe_r = NoFd]

\* the descriptors a process record holds
SlotsOf(p) ==
    {p.parent_stdin, p.parent_stdout, p.parent_stderr, p.term_master, p.exit_pipe_r}
        \ {NoFd}

\* lines 286-313: lock again; when container and process (by the cached pid)
\* are still there, close the descriptors, read exit_code and remove the
\* process; reply success in every case
do_wait_process_finish(t) ==
    /\ th[t].pc = "wp_relock"
    /\ lock = NoThread
    /\ LET cid == th[t].cid
           pid == th[t].pid
           r == Reply(th[t], "none", "none", wait_process_status("none"))
       IN
       IF cid \in DOMAIN containers /\ pid \in DOMAIN containers[cid].processes
       THEN LET p == containers[cid].processes[pid]
                closed == CloseAllFds(p)
            IN
            /\ fdtab' = fdtab \ {p[slot] : slot \in Range(closed)}
            /\ containers' = [containers EXCEPT ![cid].processes = Remove(@, pid)]
            /\ reply' = [r EXCEPT !.found = TRUE, !.closed = closed,
                                  !.stale = {p[slot] : slot \in Range(closed)} \ fdtab,
                                  !.open = SlotsOf(TakeAllFds(p)),
                                  !.exit = p.exit_code]
       ELSE /\ reply' = r
            /\ UNCHANGED <<containers, fdtab>>
    /\ th' = Returns(t)
    /\ UNCHANGED <<running, shared_ns, container_mounts, storages, mounts>>
    /\ UNCHANGED <<mounted, lock, wk, chan, timedOut>>
    /\ UNCHANGED <<shutdownVars, netVars, fnVars, fsVars>>

\* ------------------------------------------------ WriteStdin, ReadStdout/err
\* AgentService::write_stdin: an error of do_write_stream is InvalidArgument
write_stdin_status(err) == IF err = "none" THEN "OK" ELSE "InvalidArgument"

\* AgentService::read_stdout / read_stderr: an error of do_read_stream is Internal
read_stream_status(err) == IF err = "none" THEN "OK" ELSE "Internal"

\* mutant: the stdin pipe is preferred to the pty master
WriteFd_pipe_first(p) == IF p.parent_stdin # NoFd THEN p.parent_stdin ELSE p.term_master

\* lines 330-336: the pty master when set, else the stdin pipe
WriteFd(p) == IF p.term_master # NoFd THEN p.term_master ELSE p.parent_stdin

\* lines 392-400: the pty master when set, else the stdout or stderr pipe
ReadFd(p, stdout) ==
    IF p.term_master # NoFd THEN p.term_master
    ELSE IF stdout THEN p.parent_stdout ELSE p.parent_stderr

\* line 343, drop(sandbox): the lock holder after the lookup
WriteStreamDropLock(t) == NoThread

\* line 405, drop(sandbox): the lock holder after the lookup
ReadStreamDropLock(t) == NoThread

\* lines 328-343: under the lock, find the process and copy the descriptor
do_write_stream_lookup(t, eids, lens) ==
    /\ Ready(t)
    /\ lock = NoThread
    /\ \E cid \in ContainerIds, eid \in eids, len \in lens :
        LET r == [Call("WriteStdin", cid, eid, 0) EXCEPT !.len = len]
            pids == find_process(cid, eid, FALSE)
        IN
        IF pids = {}
        THEN /\ th' = Returns(t)
             /\ reply' = Reply(r, "lookup", "ErrorCode", write_stdin_status("ErrorCode"))
             /\ lock' = NoThread
        ELSE \E pid \in pids :
                LET fd == WriteFd(containers[cid].processes[pid]) IN
                IF fd = NoFd
                THEN /\ th' = Returns(t)
                     /\ reply' = Reply(r, "nofd", "EIO", write_stdin_status("EIO"))
                     /\ lock' = NoThread
                ELSE /\ th' = [th EXCEPT ![t] =
                                [r EXCEPT !.pc = "ws_write", !.fd = fd, !.pid = pid]]
                     /\ reply' = NoReply
                     /\ lock' = WriteStreamDropLock(t)
    /\ UNCHANGED <<sandboxVars, kernelVars, wk, chan, timedOut>>
    /\ UNCHANGED <<shutdownVars, netVars, fnVars, fsVars>>

\* mutant: the length of the request data is reported
WrittenLen_requested(l, v) == l

\* lines 345-361: l is the data length, replaced by the count of a short write
WrittenLen(l, v) == IF v < l THEN v ELSE l

\* lines 345-374: the one write returns: the number of bytes the kernel took,
\* EAGAIN, or another error
do_write_stream_write(t) ==
    /\ th[t].pc = "ws_write"
    /\ \/ \E v \in 0..th[t].len :
            reply' = [Reply(th[t], "written", "none", write_stdin_status("none"))
                        EXCEPT !.n = v, !.wlen = WrittenLen(th[t].len, v)]
       \/ reply' = [Reply(th[t], "EAGAIN", "none", write_stdin_status("none"))
                        EXCEPT !.wlen = 0]
       \/ reply' = Reply(th[t], "write", "EIO", write_stdin_status("EIO"))
    /\ th' = Returns(t)
    /\ UNCHANGED <<sandboxVars, kernelVars, lock, wk, chan, timedOut>>
    /\ UNCHANGED <<shutdownVars, netVars, fnVars, fsVars>>

\* lines 390-405: under the lock, find the process and copy the descriptor
do_read_stream_lookup(t, eids, lens) ==
    /\ Ready(t)
    /\ lock = NoThread
    /\ \E cid \in ContainerIds, eid \in eids, stdout \in BOOLEAN, len \in lens :
        LET r == [Call(IF stdout THEN "ReadStdout" ELSE "ReadStderr", cid, eid, 0)
                    EXCEPT !.len = len]
            pids == find_process(cid, eid, FALSE)
        IN
        IF pids = {}
        THEN /\ th' = Returns(t)
             /\ reply' = Reply(r, "lookup", "ErrorCode", read_stream_status("ErrorCode"))
             /\ lock' = NoThread
        ELSE \E pid \in pids :
                LET fd == ReadFd(containers[cid].processes[pid], stdout) IN
                IF fd = NoFd
                THEN /\ th' = Returns(t)
                     /\ reply' = Reply(r, "nofd", "EINVAL", read_stream_status("EINVAL"))
                     /\ lock' = NoThread
                ELSE /\ th' = [th EXCEPT ![t] =
                                [r EXCEPT !.pc = "rs_read", !.fd = fd, !.pid = pid]]
                     /\ reply' = NoReply
                     /\ lock' = ReadStreamDropLock(t)
    /\ UNCHANGED <<sandboxVars, kernelVars, wk, chan, timedOut>>
    /\ UNCHANGED <<shutdownVars, netVars, fnVars, fsVars>>

\* the bytes a stream delivers, in order
StreamBytes == [i \in 1..MaxLen |-> i]

\* lines 1408-1411: a buffer of l bytes that are not initialised
Uninitialised(l) == [i \in 1..l |-> 255]

\* unistd::read: the first n bytes of the buffer are those of the stream
ReadInto(buf, n) == [i \in DOMAIN buf |-> IF i <= n THEN StreamBytes[i] ELSE buf[i]]

\* mutant: the buffer keeps its length
Resize_kept(v, len) == v

\* line 1415, v.resize(len, 0), for len within the buffer
Resize(v, len) == SubSeq(v, 1, len)

\* read_stream, lines 1407-1433: the result of the one read, which returned
\* n bytes (res = "ok"), EAGAIN or another errno
read_stream(l, res, n) ==
    IF res = "ok"
    THEN IF n = 0
         THEN [stage |-> "eof", err |-> "ErrorCode", data |-> <<>>]
         ELSE [stage |-> "data", err |-> "none", data |-> Resize(ReadInto(Uninitialised(l), n), n)]
    ELSE IF res = "EAGAIN"
    THEN [stage |-> "EAGAIN", err |-> "none", data |-> Resize(Uninitialised(l), 0)]
    ELSE [stage |-> "error", err |-> "Nix", data |-> <<>>]

\* line 407 and read_stream: the read returns, and the handler replies
do_read_stream_read(t) ==
    /\ th[t].pc = "rs_read"
    /\ \E res \in {"ok", "EAGAIN", "error"}, n \in 0..th[t].len :
        LET v == read_stream(th[t].len, res, n) IN
        /\ res # "ok" => n = 0
        /\ reply' = [Reply(th[t], v.stage, v.err, read_stream_status(v.err))
                        EXCEPT !.n = n, !.data = v.data]
    /\ th' = Returns(t)
    /\ UNCHANGED <<sandboxVars, kernelVars, lock, wk, chan, timedOut>>
    /\ UNCHANGED <<shutdownVars, netVars, fnVars, fsVars>>

\* ----------------------------------------------------------- CreateSandbox
\* AgentService::create_sandbox: every error is replied as FailedPrecondition
create_sandbox_status(err) == IF err = "none" THEN "OK" ELSE "FailedPrecondition"

\* mutant: the flag is left as it was
SetRunning_kept(was) == was

\* line 1080, s.running = true
SetRunning(was) == TRUE

\* mutant: the guard of the first critical section is still alive
CreateSandboxScopeEnd_held(t) == t

\* line 1099: the block that holds the guard `s` ends before add_storages is
\* called at line 1101; the lock holder after it
CreateSandboxScopeEnd(t) == NoThread

\* lines 1072-1099: one critical section that empties CONTAINER_BASE (1076,
\* 1077), stores hostname and id, sets
\* running and calls setup_shared_namespaces; on its error the handler
\* replies and returns
create_sandbox_setup(t, lists) ==
    /\ Ready(t)
    /\ lock = NoThread
    /\ \E list \in lists :
        LET r == [Call("CreateSandbox", 0, "", 0) EXCEPT !.m = list, !.was = running] IN
        /\ AddStoragesEnabled(list)
        /\ running' = SetRunning(running)
        /\ \/ /\ shared_ns' = TRUE
              /\ th' = [th EXCEPT ![t] = [r EXCEPT !.pc = "cs_storages"]]
              /\ lock' = CreateSandboxScopeEnd(t)
              /\ reply' = NoReply
           \/ /\ shared_ns' = shared_ns
              /\ th' = Returns(t)
              /\ lock' = NoThread
              /\ reply' = Reply(r, "namespaces", "EIO", create_sandbox_status("EIO"))
    /\ UNCHANGED <<containers, container_mounts, storages, mounts>>
    /\ fs_files' = [p \in FsPaths |-> IF Escapes(p.dir) THEN fs_files[p] ELSE NoFile]
    /\ fs_dirs' = [d \in FsDirs |-> IF Escapes(d) THEN fs_dirs[d] ELSE NoDir]
    /\ UNCHANGED <<kernelVars, wk, chan, timedOut>>
    /\ UNCHANGED <<shutdownVars, netVars, fnVars>>

\* lines 1101 and 1107-1118: add_storages, which locks the sandbox by itself;
\* on its error the handler replies and returns
create_sandbox_storages(t) ==
    /\ th[t].pc = "cs_storages"
    /\ lock = NoThread
    /\ AddStoragesEnabled(th[t].m)
    /\ \E k \in 0..Len(th[t].m) :
        LET a == add_storages(th[t].m, k) IN
        /\ storages' = a.storages
        /\ mounted' = a.mounted
        /\ IF a.ok
           THEN /\ th' = [th EXCEPT ![t].pc = "cs_mounts", ![t].m = a.m]
                /\ reply' = NoReply
           ELSE /\ th' = Returns(t)
                /\ reply' = Reply(th[t], "storages", "EIO", create_sandbox_status("EIO"))
    /\ UNCHANGED <<running, shared_ns, containers, container_mounts, mounts>>
    /\ UNCHANGED <<fdtab, lock, wk, chan, timedOut>>
    /\ UNCHANGED <<shutdownVars, netVars, fnVars, fsVars>>

\* lines 1102-1106 and 1120-1124: lock again, store the mount list, reply
create_sandbox_mounts(t) ==
    /\ th[t].pc = "cs_mounts"
    /\ lock = NoThread
    /\ mounts' = th[t].m
    /\ th' = Returns(t)
    /\ reply' = [Reply(th[t], "none", "none", create_sandbox_status("none"))
                    EXCEPT !.m = th[t].m]
    /\ UNCHANGED <<running, shared_ns, containers, container_mounts, storages>>
    /\ UNCHANGED <<kernelVars, lock, wk, chan, timedOut>>
    /\ UNCHANGED <<shutdownVars, netVars, fnVars, fsVars>>

\* ---------------------------------------------------------- DestroySandbox
\* the state of the Mutex<Sandbox> after a thread panicked with the guard alive
Poisoned == <<"poisoned">>

\* a handler thread that panicked: it sends no reply and serves no further call
Panicked(t) == [th EXCEPT ![t] = [IdleThread EXCEPT !.pc = "panicked"]]

\* the handler thread of call r panicked
PanickedIn(t, r) == [th EXCEPT ![t] = [r EXCEPT !.pc = "panicked"]]

\* Sandbox::destroy, when it succeeds: every container is destroyed, the
\* sandbox mounts are released and the sandbox is not running any more
sandbox_destroy ==
    [containers |-> [c \in DOMAIN containers |-> Destroyed(containers, c)[c]],
     mounted    |-> remove_mounts(mounted, mounts, Len(mounts)),
     mounts     |-> <<>>,
     running    |-> FALSE]

\* mutant: the Sender stays in the sandbox after the send
ClearSender_kept(snd) == snd

\* line 1139, sandbox.sender = None
ClearSender(snd) == FALSE

\* lines 1132-1145, one critical section: sandbox.destroy().unwrap(), then
\* sender.as_ref().unwrap().send(1).unwrap(), then the sender is cleared and
\* the reply is sent; an unwrap of an Err or of None panics with the guard
\* alive, which poisons the mutex
destroy_sandbox(t) ==
    /\ Ready(t)
    /\ lock = NoThread
    /\ LET r == [Call("DestroySandbox", 0, "", 0) EXCEPT !.was = running]
           d == sandbox_destroy
       IN
       \/ \* sandbox.destroy() returns an error
          /\ th' = Panicked(t)
          /\ lock' = Poisoned
          /\ reply' = NoReply
          /\ UNCHANGED <<containers, mounted, mounts, running, sender, signals>>
       \/ /\ containers' = d.containers
          /\ mounted' = d.mounted
          /\ mounts' = d.mounts
          /\ running' = d.running
          /\ IF sender
             THEN /\ signals' = signals + 1
                  /\ sender' = ClearSender(sender)
                  /\ th' = Returns(t)
                  /\ lock' = NoThread
                  /\ reply' = [Reply(r, "none", "none", "OK") EXCEPT !.m = mounts]
             ELSE /\ th' = Panicked(t)
                  /\ lock' = Poisoned
                  /\ reply' = NoReply
                  /\ UNCHANGED <<sender, signals>>
    /\ UNCHANGED <<shared_ns, container_mounts, storages, fdtab, wk, chan, timedOut>>
    /\ UNCHANGED <<netVars, fnVars, fsVars>>

\* sandbox.lock().unwrap() of any handler on the poisoned mutex: the handler
\* thread panics before it touches the sandbox
lock_poisoned(t) ==
    /\ Ready(t)
    /\ lock = Poisoned
    /\ th' = Panicked(t)
    /\ reply' = NoReply
    /\ UNCHANGED <<sandboxVars, kernelVars, shutdownVars, netVars, fnVars, fsVars, lock, wk, chan, timedOut>>

\* ------------------------------------------------------------ SignalProcess
\* nix Signal::SIGTERM and Signal::SIGKILL
SIGTERM == 15
SIGKILL == 9

\* the signal numbers of a request: SIGINT, SIGKILL, SIGTERM and a number
\* that Signal::from_c_int rejects
SignalNumbers == {2, SIGKILL, SIGTERM, 99}

\* Signal::from_c_int(req.signal) is Ok
ValidSignal(signum) == signum \in {2, SIGKILL, SIGTERM}

\* /proc/<pid>/status as is_signal_handled meets it: whether it opens,
\* whether its lines can be read, and its SigCgt line: "none" (no such
\* line), or the text after "SigCgt:" as sep (the kernel writes a tab), the
\* digits (hexadecimal or not) and whether another ':' follows; caught is
\* the set of signals whose bit is set in the mask
SigCgtLines ==
    [open : {TRUE}, read : {TRUE}, line : {"SigCgt"},
     sep : {"", "tab"}, digits : {"hex", "nothex"}, colon : BOOLEAN,
     caught : SUBSET {SIGTERM}]

\* a status file without a SigCgt line
NoSigCgt ==
    [open |-> TRUE, read |-> TRUE, line |-> "none",
     sep |-> "", digits |-> "hex", colon |-> FALSE, caught |-> {}]

StatusFiles ==
    SigCgtLines \cup {NoSigCgt, [NoSigCgt EXCEPT !.open = FALSE],
                      [NoSigCgt EXCEPT !.read = FALSE]}

\* the status file of a call that does not read it
NotRead == <<>>

\* line.split(':').collect(): the number of fields of the SigCgt line
SplitLen(file) == IF file.colon THEN 3 ELSE 2

\* u64::from_str_radix(mask_vec[1], 16) is Ok: the field must consist of
\* hexadecimal digits only; leading white space is an error
FromStrRadixOk(file) == file.sep = "" /\ file.digits = "hex"

\* lines 1537-1580
is_signal_handled(file, signum) ==
    IF ~file.open THEN FALSE
    ELSE IF ~file.read THEN FALSE
    ELSE IF file.line = "none" THEN FALSE
    ELSE IF SplitLen(file) # 2 THEN FALSE
    ELSE IF ~FromStrRadixOk(file) THEN FALSE
    ELSE signum \in file.caught

\* mutant: the test of the handler is inverted
PromoteToKill_inverted(init, signum, handled) == init /\ signum = SIGTERM /\ handled

\* line 249: the condition under which SIGKILL replaces the signal
PromoteToKill(init, signum, handled) == init /\ signum = SIGTERM /\ ~handled

\* AgentService::signal_process: any error of do_signal_process is Internal
signal_process_status(err) == IF err = "none" THEN "OK" ELSE "Internal"

\* the kernel delivers a signal: SIGKILL ends the process
Signalled(ctrs, cid, pid, sig) ==
    IF sig = SIGKILL /\ ~ctrs[cid].processes[pid].exited
    THEN [ctrs EXCEPT ![cid].processes[pid] =
            [@ EXCEPT !.exited = TRUE, !.exit_code = 137]]
    ELSE ctrs

\* lines 233-257, one critical section: find the process (an empty exec id
\* names the init process), convert the signal, promote SIGTERM for an init
\* process without a handler, send
do_signal_process(t, eids, files) ==
    /\ Ready(t)
    /\ lock = NoThread
    /\ \E cid \in ContainerIds, eid \in eids, signum \in SignalNumbers :
        LET r == Call("SignalProcess", cid, eid, 0)
            pids == find_process(cid, eid, TRUE)
            fail(stage, err) ==
                /\ reply' = [Reply(r, stage, err, signal_process_status(err))
                                EXCEPT !.signal = signum]
                /\ UNCHANGED containers
        IN
        IF pids = {} THEN fail("lookup", "ErrorCode")
        ELSE IF ~ValidSignal(signum) THEN fail("signal", "EINVAL")
        ELSE \E pid \in pids :
             \E file \in IF containers[cid].processes[pid].init /\ signum = SIGTERM
                          THEN files ELSE {NotRead} :
                LET p == containers[cid].processes[pid]
                    sig == IF PromoteToKill(p.init, signum,
                                            is_signal_handled(file, signum))
                           THEN SIGKILL ELSE signum
                IN
                \/ fail("kill", "ESRCH")
                \/ /\ containers' = Signalled(containers, cid, pid, sig)
                   /\ reply' = [Reply(r, "none", "none", signal_process_status("none"))
                                    EXCEPT !.signal = signum, !.sent = sig, !.pid = pid,
                                           !.init = p.init,
                                           !.proc = file]
    /\ th' = Returns(t)
    /\ UNCHANGED <<running, shared_ns, container_mounts, storages, mounts>>
    /\ UNCHANGED <<kernelVars, lock, wk, chan, timedOut, shutdownVars, netVars, fnVars, fsVars>>

\* ------------------------------------------------- CloseStdin, TtyWinResize
\* mutant: parent_stdin is closed before term_master
CloseStdinOrder_reversed == <<"parent_stdin", "term_master">>

\* lines 817-825: the slots CloseStdin closes, in the order of the close calls
CloseStdinOrder == <<"term_master", "parent_stdin">>

\* AgentService::close_stdin, lines 792-833, one critical section: find the
\* process, close and clear term_master and then parent_stdin
close_stdin(t, eids) ==
    /\ Ready(t)
    /\ lock = NoThread
    /\ \E cid \in ContainerIds, eid \in eids :
        LET r == Call("CloseStdin", cid, eid, 0)
            pids == find_process(cid, eid, FALSE)
        IN
        IF pids = {}
        THEN /\ reply' = Reply(r, "lookup", "ErrorCode", "InvalidArgument")
             /\ UNCHANGED <<containers, fdtab>>
        ELSE \E pid \in pids :
                LET p == containers[cid].processes[pid]
                    closed == SelectSeq(CloseStdinOrder, LAMBDA slot : p[slot] # NoFd)
                IN
                /\ fdtab' = fdtab \ {p[slot] : slot \in Range(closed)}
                /\ containers' = [containers EXCEPT ![cid].processes[pid] =
                                    [@ EXCEPT !.term_master = NoFd, !.parent_stdin = NoFd]]
                /\ reply' = [Reply(r, "none", "none", "OK")
                                EXCEPT !.pid = pid, !.closed = closed, !.found = TRUE]
    /\ th' = Returns(t)
    /\ UNCHANGED <<running, shared_ns, container_mounts, storages, mounts>>
    /\ UNCHANGED <<mounted, lock, wk, chan, timedOut, shutdownVars, netVars, fnVars, fsVars>>

\* the number of values of c_ushort, the type of the winsize fields
UShortRange == 65536

\* the row and column numbers of a request (u32)
WinSizes == {0, 24, 65535, 65536 + 24}

\* mutant: rows and columns are exchanged
WinSize_swapped(row, column) == <<column % UShortRange, row % UShortRange, 0, 0>>

\* lines 860-865: the winsize handed to the ioctl; `as c_ushort` truncates
WinSize(row, column) == <<row % UShortRange, column % UShortRange, 0, 0>>

\* AgentService::tty_win_resize, lines 835-885, one critical section:
\* find_process(...).unwrap() panics for an unknown container or process;
\* without term_master the reply is Unavailable; else TIOCSWINSZ is issued
tty_win_resize(t, eids) ==
    /\ Ready(t)
    /\ lock = NoThread
    /\ \E cid \in ContainerIds, eid \in eids, row \in WinSizes, column \in WinSizes :
        LET r == Call("TtyWinResize", cid, eid, 0)
            pids == find_process(cid, eid, FALSE)
        IN
        IF pids = {}
        THEN /\ th' = PanickedIn(t, r)
             /\ lock' = Poisoned
             /\ reply' = NoReply
        ELSE \E pid \in pids :
                LET term == containers[cid].processes[pid].term_master
                    rr == [Reply(r, "none", "none", "OK")
                            EXCEPT !.pid = pid, !.fd = term, !.row = row, !.col = column]
                IN
                /\ th' = Returns(t)
                /\ lock' = NoThread
                /\ IF term = NoFd
                   THEN reply' = [rr EXCEPT !.stage = "notty", !.err = "no tty",
                                            !.status = "Unavailable"]
                   ELSE \/ reply' = [rr EXCEPT !.ioctl = WinSize(row, column)]
                        \/ reply' = [rr EXCEPT !.ioctl = WinSize(row, column),
                                               !.stage = "ioctl", !.err = "ioctl error",
                                               !.status = "Internal"]
    /\ UNCHANGED <<sandboxVars, kernelVars, wk, chan, timedOut, shutdownVars, netVars, fnVars, fsVars>>

\* ----------------------------------------------------------------- CopyFile
\* the byte a hole of a file reads as
NUL == 0

\* the content a client transfers, and the chunks it sends
Content == [i \in 1..FileSize |-> i]
ChunkOffsets == {o \in 0..(FileSize - 1) : o % ChunkLen = 0}
Chunk(o) == SubSeq(Content, o + 1, Min({o + ChunkLen, FileSize}))

\* the modes and the uid:gid a request asks for
FileModes == {"0600"}
DirModes == {"0700"}
Owners == {<<1000, 1000>>}

\* a path outside CONTAINER_BASE
OutsidePath == [base |-> FALSE, dir |-> "x", stem |-> "f", ext |-> ""]

\* CopyFileRequest, for the chunks of a file at one of the paths
CopyRequestsTo(paths) ==
    {[path |-> p, offset |-> o, data |-> Chunk(o), file_size |-> FileSize,
      dir_mode |-> dm, file_mode |-> fm, owner |-> ug] :
        p \in paths, o \in ChunkOffsets,
        dm \in DirModes, fm \in FileModes, ug \in Owners}

\* the requests without `..` in the path
CopyRequests == CopyRequestsTo({p \in FsPaths : ~Escapes(p.dir)} \cup {OutsidePath})

\* requests for one file name under CONTAINER_BASE, without and with `..`
DotDotRequests == CopyRequestsTo({p \in FsPaths : p.ext = ""})

\* the calls of do_copy_file that can fail, in the order they are made
CopyStages == <<"mkdir", "chmod_dir", "open", "write", "stat", "chmod", "chown", "rename">>
CopyFailures == Range(CopyStages) \cup {"none"}
StageNo(stage) == CHOOSE i \in DOMAIN CopyStages : CopyStages[i] = stage

\* the call of this stage is made and succeeds when the call fail fails
Passes(stage, fail) == fail = "none" \/ StageNo(stage) < StageNo(fail)

\* lines 1626-1627: PathBuf::set_extension replaces the extension of the file
\* name, or adds one to a file name that has none
set_extension(path, ext) == [path EXCEPT !.ext = ext]

\* line 1621: fs::create_dir_all, a directory is created with the default mode
create_dir_all(ds, dir) == IF ds[dir] = NoDir THEN [ds EXCEPT ![dir] = "0755"] ELSE ds

\* lines 1631-1635: open with create and without truncate; a new file is
\* empty and belongs to the agent
OpenCreate(fs, path) ==
    IF fs[path] = NoFile
    THEN [fs EXCEPT ![path] = [data |-> <<>>, mode |-> "0644", owner |-> <<0, 0>>]]
    ELSE fs

\* line 1637: write_all_at, the bytes before the offset that the file did not
\* have are a hole
WriteAllAt(old, data, offset) ==
    LET end == offset + Len(data)
        size == IF end > Len(old) THEN end ELSE Len(old)
    IN [i \in 1..size |->
            IF i > offset /\ i <= end THEN data[i - offset]
            ELSE IF i <= Len(old) THEN old[i] ELSE NUL]

\* line 1652: fs::rename replaces the target; renaming a file to itself does
\* nothing
Rename(fs, from, to) ==
    IF from = to THEN fs ELSE [fs EXCEPT ![to] = fs[from], ![from] = NoFile]

\* AgentService::copy_file, lines 1283-1305: every error is Internal
copy_file_status(err) == IF err = "none" THEN "OK" ELSE "Internal"

\* do_copy_file, lines 1602-1654, called by copy_file without the sandbox
\* lock; fail is the call that fails, if one does
do_copy_file(t, reqs) ==
    /\ Ready(t)
    /\ \E req \in reqs, fail \in CopyFailures :
        LET r == Call("CopyFile", 0, "", 0)
            path == req.path
            tmpfile == set_extension(path, "tmp")
            d1 == IF Passes("mkdir", fail) THEN create_dir_all(fs_dirs, path.dir) ELSE fs_dirs
            d2 == IF Passes("chmod_dir", fail) THEN [d1 EXCEPT ![path.dir] = req.dir_mode] ELSE d1
            f1 == IF Passes("open", fail) THEN OpenCreate(fs_files, tmpfile) ELSE fs_files
            f2 == IF Passes("write", fail)
                  THEN [f1 EXCEPT ![tmpfile].data = WriteAllAt(@, req.data, req.offset)]
                  ELSE f1
            complete == Passes("stat", fail) /\ Len(f2[tmpfile].data) = req.file_size
            f3 == IF complete /\ Passes("chmod", fail)
                  THEN [f2 EXCEPT ![tmpfile].mode = req.file_mode] ELSE f2
            f4 == IF complete /\ Passes("chown", fail)
                  THEN [f3 EXCEPT ![tmpfile].owner = req.owner] ELSE f3
            f5 == IF complete /\ Passes("rename", fail) THEN Rename(f4, tmpfile, path) ELSE f4
            err == IF fail = "none" \/ (Passes("stat", fail) /\ ~complete) THEN "none" ELSE fail
        IN
        IF ~path.base
        THEN /\ reply' = [Reply(r, "prefix", "EINVAL", copy_file_status("EINVAL"))
                            EXCEPT !.req = req]
             /\ UNCHANGED fsVars
        ELSE /\ fs_dirs' = d2
             /\ fs_files' = f5
             /\ reply' = [Reply(r, err, err, copy_file_status(err)) EXCEPT !.req = req]
    /\ th' = Returns(t)
    /\ UNCHANGED <<sandboxVars, kernelVars, lock, wk, chan, timedOut, shutdownVars, netVars, fnVars>>

\* ---------------------------------------------- update_container_namespaces
\* namespace.rs lines 21-23
NSTYPEIPC == "ipc"
NSTYPEUTS == "uts"
NSTYPEPID == "pid"

\* the namespace types of a request: the three the agent knows and another one
NsTypes == {NSTYPEIPC, NSTYPEUTS, NSTYPEPID, "network"}

\* the paths the host can put into a namespace entry
NsPaths == {"", "/proc/1/ns/host"}

\* LinuxNamespace
NsEntries == [Type : NsTypes, Path : NsPaths]

\* Spec.Linux.Namespaces of a request
NsLists == UNION {[1..n -> NsEntries] : n \in 0..MaxNamespaces}

\* the fields of Sandbox the function reads
NsSandboxes ==
    [shared_ipcns : {"", "/var/run/sandbox-ns/ipc"},
     shared_utsns : {"", "/var/run/sandbox-ns/uts"},
     sandbox_pid_ns : BOOLEAN]

\* mutant: the entry is left as the host sent it
SweepNamespace_kept(sandbox, ns) == ns

\* lines 1518-1523: the body of the loop over the namespace entries
SweepNamespace(sandbox, ns) ==
    IF ns.Type = NSTYPEIPC THEN [ns EXCEPT !.Path = sandbox.shared_ipcns]
    ELSE IF ns.Type = NSTYPEUTS THEN [ns EXCEPT !.Path = sandbox.shared_utsns]
    ELSE ns

\* line 1519: pidNs after the loop
HasPidNs(namespaces) == \E i \in DOMAIN namespaces : namespaces[i].Type = NSTYPEPID

\* mutant: the entries of the request are not consulted
NeedsPidNs_unchecked(pidNs, sandbox_pid_ns) == ~sandbox_pid_ns

\* mutant: the sandbox-wide PID namespace is not consulted
NeedsPidNs_ignores_sandbox(pidNs, sandbox_pid_ns) == ~pidNs

\* line 1526
NeedsPidNs(pidNs, sandbox_pid_ns) == ~pidNs /\ ~sandbox_pid_ns

\* lines 1527-1528: LinuxNamespace::new() with the type set
NewPidNamespace == [Type |-> NSTYPEPID, Path |-> ""]

\* lines 1504-1533; linux says whether the spec has a Linux section
update_container_namespaces(sandbox, linux, namespaces) ==
    IF ~linux THEN [ok |-> FALSE, namespaces |-> namespaces]
    ELSE LET swept == [i \in DOMAIN namespaces |-> SweepNamespace(sandbox, namespaces[i])]
         IN [ok |-> TRUE,
             namespaces |-> IF NeedsPidNs(HasPidNs(namespaces), sandbox.sandbox_pid_ns)
                            THEN Append(swept, NewPidNamespace)
                            ELSE swept]

\* a request spec and a sandbox to rewrite it against
InitNamespaces ==
    /\ ServiceInit
    /\ fn_arg \in [sandbox : NsSandboxes, linux : BOOLEAN, namespaces : NsLists]
    /\ fn_res = <<>>
    /\ fn_calls = 0

\* the function is applied to the spec, which it rewrites in place
call_update_container_namespaces ==
    /\ fn_calls < MaxCalls
    /\ fn_calls > 0 => fn_res.ok
    /\ fn_res' = update_container_namespaces(fn_arg.sandbox, fn_arg.linux,
                    IF fn_calls = 0 THEN fn_arg.namespaces ELSE fn_res.namespaces)
    /\ fn_calls' = fn_calls + 1
    /\ UNCHANGED <<sandboxVars, kernelVars, threadVars, shutdownVars, netVars, fsVars, fn_arg>>

\* ------------------------------------------------------------ ListProcesses
\* the largest pid ps prints, and the number of body lines of its output
MaxPsPid == 3
MaxPsRows == 3

PsPids == 1..MaxPsPid

\* text is a sequence of tokens: the fields of a line, and NL between lines
NL == "\n"
PsHeader == <<"UID", "PID", "CMD">>
PsRow(pid) == <<"root", ToString(pid), "sh">>

\* the body lines ps prints, each the row of a pid
PsBodies == UNION {[1..n -> PsPids] : n \in 0..MaxPsRows}

RECURSIVE JoinLines(_)
\* every line of the ps output ends with a newline
JoinLines(lines) ==
    IF lines = <<>> THEN <<>>
    ELSE Head(lines) \o <<NL>> \o JoinLines(Tail(lines))

\* the standard output of ps for these processes
PsOutput(body) == JoinLines(<<PsHeader>> \o [i \in DOMAIN body |-> PsRow(body[i])])

RECURSIVE SplitNL(_, _)
\* line 604: out.split('\n'); cur is the line being read
SplitNL(text, cur) ==
    IF text = <<>> THEN <<cur>>
    ELSE IF Head(text) = NL THEN <<cur>> \o SplitNL(Tail(text), <<>>)
    ELSE SplitNL(Tail(text), Append(cur, Head(text)))

\* line 608: the position of the PID column in the header, counted from 0
PidIndex(header) == (CHOOSE i \in DOMAIN header : header[i] = "PID") - 1

\* line 624: parse::<i32>() of a field
ParseI32(field) == CHOOSE n \in 0..MaxPsPid : ToString(n) = field

\* lines 614-630: a body line is kept when it is not blank, has a PID field
\* and that field is one of the container's pids
KeepLine(line, pid_index, pids) ==
    /\ line # <<>>
    /\ Len(line) >= pid_index + 1
    /\ ParseI32(line[pid_index + 1]) \in pids

RECURSIVE PushLines(_, _, _, _)
\* lines 613-631: result.push_str(line) for every kept line
PushLines(result, lines, pid_index, pids) ==
    IF lines = <<>> THEN result
    ELSE PushLines(IF KeepLine(Head(lines), pid_index, pids)
                   THEN result \o Head(lines) ELSE result,
                   Tail(lines), pid_index, pids)

\* lines 592-595: empty args default to -ef
PsArgs(args) == IF args = <<>> THEN <<"-ef">> ELSE args

\* AgentService::list_processes, lines 552-640, for a registered container
\* with the given pids; body is what ps prints for the arguments
list_processes(format, args, pids, body) ==
    IF format = "json"
    THEN [status |-> "OK", args |-> <<>>, process_list |-> <<"json", pids>>]
    ELSE IF format # "table"
    THEN [status |-> "InvalidArgument", args |-> <<>>, process_list |-> <<>>]
    ELSE LET lines == SplitNL(PsOutput(body), <<>>)
             pid_index == PidIndex(lines[1])
         IN [status |-> "OK", args |-> PsArgs(args),
             process_list |-> PushLines(lines[1], Tail(lines), pid_index, pids)]

\* a ListProcessesRequest, the pids of its container and the processes ps shows
InitListProcesses ==
    /\ ServiceInit
    /\ fn_arg \in [format : {"table", "json", "yaml"}, args : {<<>>, <<"aux">>},
                   pids : SUBSET PsPids, body : PsBodies]
    /\ fn_res = <<>>
    /\ fn_calls = 0

call_list_processes ==
    /\ fn_calls = 0
    /\ fn_res' = list_processes(fn_arg.format, fn_arg.args, fn_arg.pids, fn_arg.body)
    /\ fn_calls' = 1
    /\ UNCHANGED <<sandboxVars, kernelVars, threadVars, shutdownVars, netVars, fsVars, fn_arg>>

\* -------------------------------------------------------------- ExecProcess
\* AgentService::exec_process: any error of do_exec_process is Internal
exec_process_status(err) == IF err = "none" THEN "OK" ELSE "Internal"

\* mutant: an exec'd process is constructed as an init process
ExecInit_true == TRUE

\* line 224: Process::new(&sl!(), ocip, &req.exec_id, false)
ExecInit == FALSE

\* do_exec_process, lines 213-231, one critical section: without a process
\* spec or a registered container the handler returns EINVAL, else the new
\* process is run in the container
do_exec_process(t, eids, terminals) ==
    /\ Ready(t)
    /\ lock = NoThread
    /\ \E cid \in ContainerIds, eid \in eids :
        LET r == Call("ExecProcess", cid, eid, 0) IN
        \/ \* req.process is None
           /\ reply' = Reply(r, "validate", "EINVAL", exec_process_status("EINVAL"))
           /\ UNCHANGED <<containers, fdtab>>
        \/ \* Process::new fails
           /\ reply' = Reply(r, "process", "EIO", exec_process_status("EIO"))
           /\ UNCHANGED <<containers, fdtab>>
        \/ \* the container is not registered
           /\ cid \notin DOMAIN containers
           /\ reply' = Reply(r, "container", "EINVAL", exec_process_status("EINVAL"))
           /\ UNCHANGED <<containers, fdtab>>
        \/ \* ctr.run fails
           /\ cid \in DOMAIN containers
           /\ reply' = Reply(r, "run", "EIO", exec_process_status("EIO"))
           /\ UNCHANGED <<containers, fdtab>>
        \/ /\ cid \in DOMAIN containers
           /\ \E terminal \in terminals :
                LET n == FdsNeeded(terminal)
                    free == Fds \ fdtab
                IN
                /\ Cardinality(free) >= n
                /\ Pids \ (LivePids \cup DOMAIN containers[cid].processes) # {}
                /\ LET new == Min(Pids \ (LivePids \cup DOMAIN containers[cid].processes))
                       p == NewProcess(eid, ExecInit, terminal, new, LowestFree(free, n))
                   IN
                   /\ containers' = [containers EXCEPT ![cid].processes = Put(@, new, p)]
                   /\ fdtab' = fdtab \cup Range(LowestFree(free, n))
                   /\ reply' = [Reply(r, "none", "none", exec_process_status("none"))
                                    EXCEPT !.pid = new]
    /\ th' = Returns(t)
    /\ UNCHANGED <<running, shared_ns, container_mounts, storages, mounts>>
    /\ UNCHANGED <<mounted, lock, wk, chan, timedOut, shutdownVars, netVars, fnVars, fsVars>>

\* ------------------------------------------------------------- UpdateRoutes
\* the number of routes a request or the kernel can hold
NumRoutes == 2

RouteSet == 1..NumRoutes

\* UpdateRoutesRequest.routes; NoRoutes is a request without the field
NoRoutes == [present |-> FALSE, Routes |-> {}]
RouteRequests == {[present |-> TRUE, Routes |-> rs] : rs \in SUBSET RouteSet} \cup {NoRoutes}

\* RtnlHandle::update_routes when it fails: the kernel table is as it was, or
\* the routes that are not requested have already been deleted
PartialUpdate(old, rs) == {old, old \cap rs}

\* mutant: the answer to a failed update is empty
OnUpdateError_empty(crs) == {}

\* lines 950-953: `Err(_) => crs`, the routes listed before the update
OnUpdateError(crs) == crs

\* AgentService::update_routes, lines 921-964, one critical section: the
\* handle is constructed on first use, the current routes are listed, the
\* update is applied and its result, or on its error the listed routes, is
\* the reply
update_routes(t) ==
    /\ Ready(t)
    /\ lock = NoThread
    /\ \E routes \in RouteRequests :
        LET rs == routes.Routes
            r == [Call("UpdateRoutes", 0, "", 0) EXCEPT !.m = rs]
        IN
        IF ~routes.present
        THEN \* req.routes.clone().unwrap() panics before the lock is taken
             /\ th' = Panicked(t)
             /\ reply' = NoReply
             /\ UNCHANGED <<lock, netVars>>
        ELSE \/ \* RtnlHandle::new(NETLINK_ROUTE, 0).unwrap() panics
                /\ ~rtnl
                /\ th' = Panicked(t)
                /\ lock' = Poisoned
                /\ reply' = NoReply
                /\ UNCHANGED netVars
             \/ \* list_routes fails
                /\ rtnl' = TRUE
                /\ th' = Returns(t)
                /\ reply' = [Reply(r, "list", "EIO", "Internal") EXCEPT !.m = rs]
                /\ UNCHANGED <<lock, kroutes>>
             \/ \* update_routes fails
                /\ rtnl' = TRUE
                /\ kroutes' \in PartialUpdate(kroutes, rs)
                /\ th' = Returns(t)
                /\ reply' = [Reply(r, "update", "EIO", "OK")
                                EXCEPT !.m = rs, !.routes = OnUpdateError(kroutes)]
                /\ UNCHANGED lock
             \/ /\ rtnl' = TRUE
                /\ kroutes' = rs
                /\ th' = Returns(t)
                /\ reply' = [Reply(r, "none", "none", "OK") EXCEPT !.m = rs, !.routes = rs]
                /\ UNCHANGED lock
    /\ UNCHANGED <<sandboxVars, kernelVars, wk, chan, timedOut, shutdownVars, fnVars, fsVars>>

\* --------------------------------------------------------- Namespace::setup
\* the root directories a Namespace is set up in (namespace.rs line 20 is the
\* default), and the types as_ipc and as_uts select
NsRootDirs == {"/var/run/sandbox-ns", "/tmp/ipc", "/tmp/uts"}
NsSetupTypes == {NSTYPEIPC, NSTYPEUTS}

\* the calls of setup and of its thread that can fail; "join" is a panic of
\* the thread, which makes join() fail
NsSetupFailures == {"none", "create_dir_all", "create", "open", "unshare", "mount", "join"}

\* lines 78 and 90: ns_path.join(ns_type.get())
NsJoin(dir, name) == <<dir, name>>

\* mutant: the thread stays in the namespace it started in
Unshare_kept(ns) == ns

\* line 102: unshare(cf) moves the calling thread into a new namespace
Unshare(ns) == "new"

\* mutant: unshare is called by the thread that called setup
UnshareThread_caller == "caller_ns"

\* lines 86-102: unshare is called inside the closure of thread::spawn, so
\* the namespace that changes is that of the spawned thread
UnshareThread == "thread_ns"

\* lines 133-139: the result of setup after join(); a thread that panicked
\* makes join() fail
JoinResult(worker) == IF worker = "Ok" THEN "Ok" ELSE "Err"

\* Namespace::new followed by as_ipc or as_uts and set_root_dir, lines 43-65;
\* caller_ns and thread_ns are the namespaces the calling thread and the
\* spawned thread are in
NewNamespace ==
    [pc |-> "new", path |-> <<>>, worker |-> "none", thread_ns |-> "origin",
     caller_ns |-> "origin", mnt |-> <<>>, result |-> "none"]

InitSetup ==
    /\ ServiceInit
    /\ fn_arg \in [ns_type : NsSetupTypes, persistent_ns_dir : NsRootDirs,
                   fail : NsSetupFailures]
    /\ fn_res = NewNamespace
    /\ fn_calls = 0

\* setup, lines 70-86: the directory and the mount point file are created,
\* path is set and the thread is spawned
setup_spawn ==
    /\ fn_res.pc = "new"
    /\ fn_res' = IF fn_arg.fail \in {"create_dir_all", "create"}
                 THEN [fn_res EXCEPT !.pc = "returned", !.result = "Err"]
                 ELSE [fn_res EXCEPT !.pc = "spawned", !.worker = "running",
                            !.path = NsJoin(fn_arg.persistent_ns_dir, fn_arg.ns_type)]
    /\ fn_calls' = fn_calls + 1
    /\ UNCHANGED <<sandboxVars, kernelVars, threadVars, shutdownVars, netVars, fsVars, fn_arg>>

\* the thread, lines 92-97: the namespace file of the thread is opened
setup_thread_open ==
    /\ fn_res.pc = "spawned"
    /\ fn_res' = IF fn_arg.fail = "open"
                 THEN [fn_res EXCEPT !.pc = "joinable", !.worker = "Err"]
                 ELSE IF fn_arg.fail = "join"
                 THEN [fn_res EXCEPT !.pc = "joinable", !.worker = "panicked"]
                 ELSE [fn_res EXCEPT !.pc = "opened"]
    /\ fn_calls' = fn_calls + 1
    /\ UNCHANGED <<sandboxVars, kernelVars, threadVars, shutdownVars, netVars, fsVars, fn_arg>>

\* the thread, lines 100-104: unshare
setup_thread_unshare ==
    /\ fn_res.pc = "opened"
    /\ fn_res' = IF fn_arg.fail = "unshare"
                 THEN [fn_res EXCEPT !.pc = "joinable", !.worker = "Err"]
                 ELSE [fn_res EXCEPT !.pc = "unshared",
                                     ![UnshareThread] = Unshare(@)]
    /\ fn_calls' = fn_calls + 1
    /\ UNCHANGED <<sandboxVars, kernelVars, threadVars, shutdownVars, netVars, fsVars, fn_arg>>

\* the thread, lines 107-130: the namespace the thread is in now is bind
\* mounted on the mount point
setup_thread_mount ==
    /\ fn_res.pc = "unshared"
    /\ fn_res' = IF fn_arg.fail = "mount"
                 THEN [fn_res EXCEPT !.pc = "joinable", !.worker = "Err"]
                 ELSE [fn_res EXCEPT !.pc = "joinable", !.worker = "Ok",
                            !.mnt = [at |-> NsJoin(fn_arg.persistent_ns_dir, fn_arg.ns_type),
                                     ns_type |-> fn_arg.ns_type, ns |-> fn_res.thread_ns]]
    /\ fn_calls' = fn_calls + 1
    /\ UNCHANGED <<sandboxVars, kernelVars, threadVars, shutdownVars, netVars, fsVars, fn_arg>>

\* setup, lines 133-141: join returns when the thread has ended, and its
\* result is the result of setup
setup_join ==
    /\ fn_res.pc = "joinable"
    /\ fn_res' = [fn_res EXCEPT !.pc = "returned", !.result = JoinResult(fn_res.worker),
                                !.worker = "joined"]
    /\ fn_calls' = fn_calls + 1
    /\ UNCHANGED <<sandboxVars, kernelVars, threadVars, shutdownVars, netVars, fsVars, fn_arg>>

\* ------------------------------- ListProcesses, UpdateContainer, StatsContainer
\* the requests of ListProcesses, and the body lines ps prints
ListRequests == [format : {"table", "json", "yaml"}, args : {<<>>, <<"aux">>}]
ListBodies == {<<>>, <<1>>, <<1, 2>>}

\* the lock holder while `ps` runs: the guard taken at line 564 lives until
\* list_processes returns
ListProcessesPsLock(t) == t

\* AgentService::list_processes, lines 558-596: lock the sandbox, look the
\* container up (unwrap panics when it is not registered), read its pids and
\* answer at once unless the format is "table"
list_processes_lock(t) ==
    /\ Ready(t)
    /\ lock = NoThread
    /\ \E cid \in ContainerIds, req \in ListRequests :
        LET r == [Call("ListProcesses", cid, "", 0) EXCEPT !.req = req] IN
        IF cid \notin DOMAIN containers
        THEN /\ th' = PanickedIn(t, r)
             /\ lock' = Poisoned
             /\ reply' = NoReply
        ELSE IF req.format = "table"
        THEN /\ th' = [th EXCEPT ![t] = [r EXCEPT !.pc = "lp_ps"]]
             /\ lock' = ListProcessesPsLock(t)
             /\ reply' = NoReply
        ELSE LET v == list_processes(req.format, req.args,
                                     DOMAIN containers[cid].processes, <<>>)
             IN
             /\ th' = Returns(t)
             /\ lock' = NoThread
             /\ reply' = [Reply(r, "none", IF v.status = "OK" THEN "none" ELSE "format",
                                v.status)
                            EXCEPT !.req = req, !.data = v.process_list]
    /\ UNCHANGED <<sandboxVars, kernelVars, wk, chan, timedOut, shutdownVars, netVars, fnVars, fsVars>>

\* lines 597-640: ps ends; `expect` panics when it could not be run, else its
\* output is filtered and the handler replies and returns
list_processes_ps(t) ==
    /\ th[t].pc = "lp_ps"
    /\ \/ /\ th' = PanickedIn(t, th[t])
          /\ lock' = Poisoned
          /\ reply' = NoReply
       \/ \E body \in ListBodies :
            LET v == list_processes(th[t].req.format, th[t].req.args,
                                    DOMAIN containers[th[t].cid].processes, body)
            IN
            /\ th' = Returns(t)
            /\ lock' = NoThread
            /\ reply' = [Reply(th[t], "none", "none", v.status)
                            EXCEPT !.req = th[t].req, !.data = v.process_list]
    /\ UNCHANGED <<sandboxVars, kernelVars, wk, chan, timedOut, shutdownVars, netVars, fnVars, fsVars>>

\* AgentService::update_container, lines 641-679, one critical section: the
\* container is looked up (unwrap panics when it is not registered) and, when
\* the request has resources, ctr.set is applied, whose error is Internal
update_container(t) ==
    /\ Ready(t)
    /\ lock = NoThread
    /\ \E cid \in ContainerIds, resources \in BOOLEAN :
        LET r == Call("UpdateContainer", cid, "", 0) IN
        IF cid \notin DOMAIN containers
        THEN /\ th' = PanickedIn(t, r)
             /\ lock' = Poisoned
             /\ reply' = NoReply
        ELSE /\ th' = Returns(t)
             /\ lock' = NoThread
             /\ \/ reply' = Reply(r, "none", "none", "OK")
                \/ /\ resources
                   /\ reply' = Reply(r, "set", "internal error", "Internal")
    /\ UNCHANGED <<sandboxVars, kernelVars, wk, chan, timedOut, shutdownVars, netVars, fnVars, fsVars>>

\* AgentService::stats_container, lines 680-711, one critical section: the
\* container is looked up (unwrap panics when it is not registered) and
\* ctr.stats is answered, its error as Internal
stats_container(t) ==
    /\ Ready(t)
    /\ lock = NoThread
    /\ \E cid \in ContainerIds :
        LET r == Call("StatsContainer", cid, "", 0) IN
        IF cid \notin DOMAIN containers
        THEN /\ th' = PanickedIn(t, r)
             /\ lock' = Poisoned
             /\ reply' = NoReply
        ELSE /\ th' = Returns(t)
             /\ lock' = NoThread
             /\ \/ reply' = Reply(r, "none", "none", "OK")
                \/ reply' = Reply(r, "stats", "internal error", "Internal")
    /\ UNCHANGED <<sandboxVars, kernelVars, wk, chan, timedOut, shutdownVars, netVars, fnVars, fsVars>>

\* ------------------------------------------- container removal, checked
NextRemove ==
    \/ \E t \in RemoveThreads : do_create_container_storages(t, ContainerIds, StorageLists, {""})
    \/ \E t \in RemoveThreads : do_create_container_locked(t, {FALSE})
    \/ \E t \in RemoveThreads : do_remove_container_sync(t)
    \/ \E t \in RemoveThreads : do_remove_container_sync_destroyed(t)
    \/ \E t \in RemoveThreads : do_remove_container_spawn(t)
    \/ \E w \in Workers : worker_lock(w)
    \/ \E w \in Workers : worker_destroyed(w)
    \/ \E t \in RemoveThreads : do_remove_container_recv(t)
    \/ \E t \in RemoveThreads : do_remove_container_timeout(t)
    \/ \E t \in RemoveThreads : do_remove_container_relock(t)

SpecRemove == Init /\ [][NextRemove]_vars

ListedElsewhere(mp) ==
    \E c \in DOMAIN container_mounts : mp \in Range(container_mounts[c])

RemoveSucceeded == reply.op = "RemoveContainer" /\ reply.status = "OK"

\* C1: when RemoveContainer(id) returns success, containers and
\* container_mounts have no entry for id, and every mount point that was in
\* container_mounts[id] is still listed by another container or is unmounted.
C1_RemoveContainerPost ==
    RemoveSucceeded =>
        /\ reply.cid \notin DOMAIN containers
        /\ reply.cid \notin DOMAIN container_mounts
        /\ \A mp \in Range(reply.m) : ListedElsewhere(mp) \/ mp \notin mounted

\* a RemoveContainer returned success for a container that had mount points
C1_Witness == RemoveSucceeded /\ reply.m # <<>>

\* C2: RemoveContainer unmounts a mount point only when its storage refcount
\* reached zero; a mount point that another container still lists stays mounted.
C2_UnmountOnlyAtZero ==
    [][\A mp \in MountPoints :
        (reply'.op = "RemoveContainer" /\ mp \in mounted /\ mp \notin mounted')
            => ~\E c \in DOMAIN container_mounts' \ {reply'.cid} :
                    mp \in Range(container_mounts'[c])]_vars

\* C5: between RPC critical sections every key of container_mounts is a key
\* of containers, also after a CreateContainer that failed part-way.
C5_MountsHaveContainer ==
    lock = NoThread => DOMAIN container_mounts \subseteq DOMAIN containers

\* C7: no thread acting for RemoveContainer, handler or worker, holds the
\* sandbox lock while the container's destroy is running.
C7_NoLockDuringDestroy ==
    /\ \A t \in Threads : th[t].pc = "rc_destroy" => lock # t
    /\ \A w \in Workers : wk[w].pc = "w_destroy" => lock # w

\* C8: a RemoveContainer whose worker result does not arrive within the
\* timeout replies with status DeadlineExceeded.
C8_TimeoutIsDeadlineExceeded ==
    (reply.op = "RemoveContainer" /\ reply.err = "ETIME")
        => reply.status = "DeadlineExceeded"

\* C9: a RemoveContainer that timed out and its worker leave the container
\* and its container_mounts entry registered, and a later RemoveContainer
\* with timeout 0 finds the container, fails only if destroy or an unmount
\* fails, and otherwise returns success with both entries removed.
C9_RemoveAfterTimeout ==
    /\ timedOut \subseteq DOMAIN containers \cap DOMAIN container_mounts
    /\ (reply.op = "RemoveContainer" /\ reply.timeout = 0 /\ reply.late) =>
        /\ reply.stage \in {"none", "destroy", "remove_mounts", "storage"}
        /\ reply.stage = "none" =>
            /\ reply.status = "OK"
            /\ reply.cid \notin DOMAIN containers
            /\ reply.cid \notin DOMAIN container_mounts

\* a RemoveContainer with timeout 0 succeeded on a container an earlier
\* RemoveContainer had timed out on
C9_Witness ==
    /\ reply.op = "RemoveContainer" /\ reply.timeout = 0 /\ reply.late
    /\ reply.status = "OK"

\* C39: a RemoveContainer that returns an error leaves the keys of containers,
\* and container_mounts and storages, as they were.
C39_FailedRemoveChangesNothing ==
    [][(reply'.op = "RemoveContainer" /\ reply'.status # "OK") =>
        /\ DOMAIN containers' = DOMAIN containers
        /\ container_mounts' = container_mounts
        /\ storages' = storages]_vars

\* ------------------------------------------- process waiting and stdio, checked
NextWait ==
    \/ \E t \in Threads : do_create_container_storages(t, {1}, {<<>>}, {"e1"})
    \/ \E t \in Threads : do_create_container_locked(t, BOOLEAN)
    \/ process_exits
    \/ \E t \in Threads : do_wait_process_lookup(t, {"e1"})
    \/ \E t \in Threads : do_wait_process_read(t)
    \/ \E t \in Threads : do_wait_process_finish(t)
    \/ \E t \in Threads : do_write_stream_lookup(t, {"e1"}, {1})
    \/ \E t \in Threads : do_write_stream_write(t)
    \/ \E t \in Threads : do_read_stream_lookup(t, {"e1"}, {1})
    \/ \E t \in Threads : do_read_stream_read(t)
    \/ \E t \in Threads : do_remove_container_sync(t)
    \/ \E t \in Threads : do_remove_container_sync_destroyed(t)

SpecWait == Init /\ [][NextWait]_vars

WaitSucceeded == reply.op = "WaitProcess" /\ reply.status = "OK"

\* C3: when WaitProcess is called twice on the same process, the second call
\* returns an error, and no descriptor is closed that is not open.
C3_SecondWaitFails ==
    /\ (reply.op = "WaitProcess" /\ reply.second) => reply.status # "OK"
    /\ reply.op = "WaitProcess" => reply.stale = {}

\* C4: when WaitProcess returns for a process, the returning call closed,
\* in the critical section it re-acquired after the exit-pipe read, every
\* open descriptor of the process once, in the order parent_stdin,
\* parent_stdout, parent_stderr, term_master, exit_pipe_r, and left no slot set.
C4_WaitClosesAll ==
    WaitSucceeded =>
        /\ reply.found
        /\ reply.open = {}
        /\ reply.stale = {}
        /\ reply.closed \in {CloseOrder,
                            SelectSeq(CloseOrder, LAMBDA slot : slot # "term_master")}

Blocked(t) == th[t].pc \in {"wp_read", "ws_write", "rs_read"}

\* C6: WriteStdin, ReadStdout/ReadStderr and WaitProcess do not hold the
\* sandbox lock while blocked in write(), read() or the exit-pipe read.
C6_NoLockWhileBlocked == \A t \in Threads : Blocked(t) => lock # t

\* one RPC is blocked in its syscall while another RPC holds the sandbox lock
C6_Witness ==
    \E t, u \in Threads :
        t # u /\ th[t].pc = "wp_read" /\ ReadBlocks(th[t].fd) /\ lock = u

\* C35: a WaitProcess that returns success found, when it locked the sandbox
\* again, the process it had resolved, and returns the exit_code it read from
\* it; it never returns the default status of a response it did not fill in.
C35_StatusOfResolvedProcess ==
    (reply.op = "WaitProcess" /\ reply.status = "OK") => reply.found

\* ------------------------------------------------ sandbox creation, checked
NextSandbox ==
    \/ \E t \in SandboxThreads : create_sandbox_setup(t, StorageLists)
    \/ \E t \in SandboxThreads : create_sandbox_storages(t)
    \/ \E t \in SandboxThreads : create_sandbox_mounts(t)
    \/ \E t \in Threads : do_create_container_storages(t, {1}, StorageLists, {""})
    \/ \E t \in Threads : do_create_container_locked(t, {FALSE})
    \/ \E t \in Threads : do_remove_container_sync(t)
    \/ \E t \in Threads : do_remove_container_sync_destroyed(t)

SpecSandbox == Init /\ [][NextSandbox]_vars

\* C10: a CreateSandbox that fails, in the namespace setup or in the storage
\* mounting, replies FailedPrecondition, and when the sandbox was not running
\* before the call it is not running after it.
C10_FailedCreateSandboxNotRunning ==
    (reply.op = "CreateSandbox" /\ reply.err # "none") =>
        /\ reply.status = "FailedPrecondition"
        /\ ~reply.was => ~running

\* ------------------------------------ sandbox creation and shutdown, checked
NextShutdown ==
    \/ \E t \in Threads : create_sandbox_setup(t, StorageLists)
    \/ \E t \in Threads : create_sandbox_storages(t)
    \/ \E t \in Threads : create_sandbox_mounts(t)
    \/ \E t \in Threads : destroy_sandbox(t)
    \/ \E t \in Threads : lock_poisoned(t)
    \/ \E t \in Threads : do_create_container_storages(t, {1}, StorageLists, {""})
    \/ \E t \in Threads : do_create_container_locked(t, {FALSE})

SpecShutdown == Init /\ [][NextShutdown]_vars

\* C11: over any sequence of RPCs the shutdown channel is signalled at most
\* once, only by a DestroySandbox whose sandbox.destroy() succeeded and which
\* clears the sender in the same step, and never again after that.
C11_SignalOnce ==
    [][/\ signals' <= 1
       /\ signals' # signals =>
            /\ signals' = signals + 1
            /\ reply'.op = "DestroySandbox" /\ reply'.status = "OK"
            /\ sender /\ ~sender'
       /\ ~sender => ~sender']_vars

\* a DestroySandbox is called after the shutdown channel was signalled
C11_Witness ==
    /\ signals = 1 /\ ~sender
    /\ \E t \in Threads : th[t].pc = "panicked"

NextNamespaces == call_update_container_namespaces

SpecNamespaces == InitNamespaces /\ [][NextNamespaces]_vars

\* C13: applying update_container_namespaces twice yields the namespace list
\* that applying it once yields.
C13_Idempotent ==
    fn_calls = 2 =>
        fn_res = update_container_namespaces(fn_arg.sandbox, fn_arg.linux, fn_arg.namespaces)

\* the function was applied twice to a spec without a pid entry and with an
\* ipc entry, against a sandbox without a PID namespace
C13_Witness ==
    /\ fn_calls = 2
    /\ ~HasPidNs(fn_arg.namespaces) /\ ~fn_arg.sandbox.sandbox_pid_ns
    /\ \E i \in DOMAIN fn_arg.namespaces : fn_arg.namespaces[i].Type = NSTYPEIPC

C15_PidAppended ==
    (fn_calls = 1 /\ fn_res.ok) =>
        SubSeq(fn_res.namespaces, Len(fn_arg.namespaces) + 1, Len(fn_res.namespaces))
            = IF ~HasPidNs(fn_arg.namespaces) /\ ~fn_arg.sandbox.sandbox_pid_ns
              THEN <<[Type |-> "pid", Path |-> ""]>>
              ELSE <<>>

\* a pid entry was appended to a non-empty list of entries
C15_Witness ==
    /\ fn_calls = 1 /\ fn_res.ok
    /\ fn_arg.namespaces # <<>>
    /\ Len(fn_res.namespaces) = Len(fn_arg.namespaces) + 1

\* --------------------------------------------------- signalling, checked
NextSignal ==
    \/ \E t \in Threads : do_create_container_storages(t, {1}, {<<>>}, {"", "init"})
    \/ \E t \in Threads : do_create_container_locked(t, {FALSE})
    \/ \E t \in Threads : do_signal_process(t, {"", "init"}, StatusFiles)
    \/ process_exits
    \/ \E t \in Threads : do_wait_process_lookup(t, {"", "init"})
    \/ \E t \in Threads : do_wait_process_read(t)
    \/ \E t \in Threads : do_wait_process_finish(t)

SpecSignal == Init /\ [][NextSignal]_vars

\* the status file read for a SIGTERM to an init process shows no handler
NoHandlerSeen(file) ==
    \/ ~file.open \/ ~file.read
    \/ file.line = "none" \/ file.colon \/ file.digits = "nothex"
    \/ SIGTERM \notin file.caught

\* C16: SignalProcess with SIGTERM on an init process whose SigCgt mask has
\* the SIGTERM bit clear, or whose status file cannot be opened or read or
\* has no parsable SigCgt line, sends SIGKILL.
C16_TermPromoted ==
    (/\ reply.op = "SignalProcess" /\ reply.status = "OK"
     /\ reply.init /\ reply.signal = SIGTERM
     /\ NoHandlerSeen(reply.proc))
        => reply.sent = SIGKILL

\* SIGTERM was sent to an init process whose status file was read and parsed
\* and shows the SIGTERM bit clear
C16_Witness ==
    /\ reply.op = "SignalProcess" /\ reply.status = "OK"
    /\ reply.init /\ reply.signal = SIGTERM
    /\ reply.proc.open /\ reply.proc.read /\ reply.proc.line = "SigCgt"
    /\ FromStrRadixOk(reply.proc) /\ ~reply.proc.colon
    /\ SIGTERM \notin reply.proc.caught

\* C17: an empty exec id names the init process: WaitProcess(c, "") and
\* SignalProcess(c, "", sig) on a registered container whose init process is
\* registered resolve to that process, whatever exec id it was created with.
C17_EmptyExecIdIsInit ==
    /\ (/\ reply.op \in {"WaitProcess", "SignalProcess"}
        /\ reply.eid = "" /\ reply.stage = "lookup")
            => ~(/\ reply.cid \in DOMAIN containers
                 /\ containers[reply.cid].init_process_pid
                        \in DOMAIN containers[reply.cid].processes)
    /\ (reply.op = "SignalProcess" /\ reply.eid = "" /\ reply.status = "OK")
            => reply.init

\* C37: a SignalProcess that succeeds sends the requested signal, except that
\* SIGTERM to an init process without SIGTERM handler is sent as SIGKILL; an
\* init process whose status file has the line "SigCgt:<tab><hex mask>" with
\* the SIGTERM bit set gets SIGTERM; a number that is no signal is an error
\* and nothing is sent.
C37_SignalAsRequested ==
    reply.op = "SignalProcess" =>
        /\ reply.signal \notin {2, 9, 15} => reply.status # "OK" /\ reply.sent = 0
        /\ reply.status = "OK" =>
            /\ ~reply.init => reply.sent = reply.signal
            /\ reply.signal # 15 => reply.sent = reply.signal
            /\ (/\ reply.init /\ reply.signal = 15
                /\ reply.proc.open /\ reply.proc.read /\ reply.proc.line = "SigCgt"
                /\ reply.proc.sep = "tab" /\ reply.proc.digits = "hex"
                /\ ~reply.proc.colon /\ 15 \in reply.proc.caught)
                    => reply.sent = 15

\* ------------------------------------------------ terminal resize, checked
NextTty ==
    \/ \E t \in Threads : do_create_container_storages(t, {1}, {<<>>}, {"e1"})
    \/ \E t \in Threads : do_create_container_locked(t, BOOLEAN)
    \/ \E t \in Threads : close_stdin(t, {"e1"})
    \/ \E t \in Threads : tty_win_resize(t, {"e1"})
    \/ \E t \in Threads : lock_poisoned(t)

SpecTty == Init /\ [][NextTty]_vars

\* C18 as stated: TtyWinResize on a process without term_master replies
\* Unavailable and issues no ioctl; with term_master it issues TIOCSWINSZ
\* with {row, col, 0, 0} and replies Internal when the ioctl fails.
C18_ResizeAsStated ==
    reply.op = "TtyWinResize" =>
        /\ reply.fd = NoFd => reply.status = "Unavailable" /\ reply.ioctl = <<>>
        /\ reply.fd # NoFd =>
            /\ reply.ioctl = <<reply.row, reply.col, 0, 0>>
            /\ reply.status = IF reply.stage = "ioctl" THEN "Internal" ELSE "OK"

\* C18 amended: as stated, with the winsize {row mod 2^16, col mod 2^16, 0, 0}.
C18_ResizeTruncated ==
    reply.op = "TtyWinResize" =>
        /\ reply.fd = NoFd => reply.status = "Unavailable" /\ reply.ioctl = <<>>
        /\ reply.fd # NoFd =>
            /\ reply.ioctl = <<reply.row % 65536, reply.col % 65536, 0, 0>>
            /\ reply.status = IF reply.stage = "ioctl" THEN "Internal" ELSE "OK"

\* a resize with a row number beyond 16 bits succeeded on a terminal, and one
\* was refused on a process whose term_master CloseStdin had cleared
C18_Witness ==
    /\ reply.op = "TtyWinResize"
    /\ \/ reply.fd # NoFd /\ reply.status = "OK" /\ reply.row > 65535 /\ reply.col = 24
       \/ /\ reply.fd = NoFd /\ reply.status = "Unavailable"
          /\ containers[reply.cid].processes[reply.pid].parent_stdin = NoFd

\* ----------------------------------------------------- CopyFile, checked
NextCopy ==
    \E t \in SandboxThreads : do_copy_file(t, CopyRequests)

SpecCopy == Init /\ [][NextCopy]_vars

\* C19: whatever chunks were sent, in whatever order and however often, the
\* file at the path of a CopyFile request is absent or holds the complete
\* intended content.
C19_TargetAbsentOrComplete ==
    (reply.op = "CopyFile" /\ reply.req.path.base) =>
        \/ fs_files[reply.req.path] = NoFile
        \/ fs_files[reply.req.path].data = Content

\* C20: a successful CopyFile wrote its chunk at its offset into the staging
\* file without truncating it; when the staging file is then shorter than
\* file_size the target is as it was, and when it has file_size bytes the
\* target is the staging file with file_mode and uid:gid and no staging file
\* remains.
C20_ChunkThenFinalize ==
    [][(reply'.op = "CopyFile" /\ reply'.status = "OK") =>
        LET req == reply'.req
            staging == [req.path EXCEPT !.ext = "tmp"]
            old == IF fs_files[staging] = NoFile THEN <<>> ELSE fs_files[staging].data
            new == [i \in 1..(IF req.offset + Len(req.data) > Len(old)
                              THEN req.offset + Len(req.data) ELSE Len(old)) |->
                        IF i > req.offset /\ i <= req.offset + Len(req.data)
                        THEN req.data[i - req.offset]
                        ELSE IF i <= Len(old) THEN old[i] ELSE 0]
        IN
        /\ Len(new) < req.file_size =>
            /\ fs_files'[staging] # NoFile /\ fs_files'[staging].data = new
            /\ fs_files'[req.path] = fs_files[req.path]
        /\ Len(new) = req.file_size =>
            /\ fs_files'[req.path] = [data |-> new, mode |-> req.file_mode, owner |-> req.owner]
            /\ fs_files'[staging] = NoFile]_vars

\* C21: a CopyFile request whose path does not start with CONTAINER_BASE is
\* answered with InvalidArgument, and no directory or file is created or
\* changed.
C21_OutsideRejected ==
    [][(reply'.op = "CopyFile" /\ ~reply'.req.path.base) =>
        /\ reply'.status = "InvalidArgument"
        /\ UNCHANGED fsVars]_vars

\* ------------------------------------------------ process listing, checked
NextListProcesses == call_list_processes

SpecListProcesses == InitListProcesses /\ [][NextListProcesses]_vars

\* the lines of a text, without the empty line after a final newline
TextLines ==
    SelectSeq(SplitNL(fn_res.process_list, <<>>), LAMBDA line : line # <<>>)

\* C22: the table answer consists of the header line of ps followed by the
\* body lines whose PID is a pid of the container, each once and each a line
\* of its own; empty args default to -ef.
C22_TableLines ==
    (fn_calls = 1 /\ fn_arg.format = "table") =>
        /\ fn_res.status = "OK"
        /\ fn_res.args = IF fn_arg.args = <<>> THEN <<"-ef">> ELSE fn_arg.args
        /\ TextLines = <<PsHeader>> \o
                [i \in 1..Len(SelectSeq(fn_arg.body, LAMBDA p : p \in fn_arg.pids)) |->
                    <<"root", ToString(SelectSeq(fn_arg.body, LAMBDA p : p \in fn_arg.pids)[i]), "sh">>]

\* ------------------------------------------- CreateContainer errors, checked
\* C23: a CreateContainer request without OCI spec or without Process is
\* answered with InvalidArgument and changes no sandbox state; a failure at a
\* later step is answered with Internal.
C23_ValidationIsInvalidArgument ==
    [][reply'.op = "CreateContainer" =>
        /\ reply'.stage = "validate" =>
            /\ reply'.status = "InvalidArgument"
            /\ UNCHANGED <<sandboxVars, kernelVars>>
        /\ reply'.stage \notin {"none", "validate"} => reply'.status = "Internal"]_vars

\* --------------------------------------------------- init processes, checked
NextExec ==
    \/ \E t \in Threads : do_create_container_storages(t, {1}, {<<>>}, ExecIds)
    \/ \E t \in Threads : do_create_container_locked(t, {FALSE})
    \/ \E t \in Threads : do_exec_process(t, ExecIds, {FALSE})
    \/ process_exits

SpecExec == Init /\ [][NextExec]_vars

InitProcesses(c) == {p \in DOMAIN containers[c].processes : containers[c].processes[p].init}

\* C24: every container has at most one process with init = true.
C24_OneInit ==
    \A c \in DOMAIN containers : Cardinality(InitProcesses(c)) <= 1

\* ExecProcess has added a process to a container that has its init process
C24_Witness ==
    /\ reply.op = "ExecProcess" /\ reply.status = "OK"
    /\ Cardinality(DOMAIN containers[reply.cid].processes) = 2
    /\ InitProcesses(reply.cid) = {containers[reply.cid].init_process_pid}

\* --------------------------------------------------- route updates, checked
NextRoutes ==
    \/ \E t \in Threads : update_routes(t)
    \/ \E t \in Threads : lock_poisoned(t)

SpecRoutes == Init /\ [][NextRoutes]_vars

\* C25: an UpdateRoutes whose update failed replies success with the routes
\* the kernel had before the call; the reply is Internal only when the
\* initial list_routes failed.
C25_SnapshotOnFailure ==
    [][reply'.op = "UpdateRoutes" =>
        /\ reply'.stage = "update" => reply'.status = "OK" /\ reply'.routes = kroutes
        /\ reply'.status = "Internal" <=> reply'.stage = "list"
        /\ reply'.status \in {"OK", "Internal"}]_vars

\* a failed update was answered with the routes of before the call, which are
\* neither the requested routes nor what the kernel has now
C25_Witness ==
    /\ reply.op = "UpdateRoutes" /\ reply.stage = "update" /\ reply.status = "OK"
    /\ reply.routes # {} /\ reply.routes # reply.m /\ reply.routes # kroutes

\* ------------------------------------------------ Namespace::setup, checked
NextSetup ==
    \/ setup_spawn
    \/ setup_thread_open
    \/ setup_thread_unshare
    \/ setup_thread_mount
    \/ setup_join

SpecSetup == InitSetup /\ [][NextSetup]_vars

\* C26: setup returns only when its thread has ended; when no call fails it
\* returns Ok, and when it returns Ok its path is <root_dir>/<type> and the
\* new namespace of that type is bind mounted there.
C26_SetupPersists ==
    fn_res.result # "none" =>
        /\ fn_res.worker \in {"none", "joined"}
        /\ fn_arg.fail = "none" => fn_res.result = "Ok"
        /\ fn_res.result = "Ok" =>
            /\ fn_res.path = <<fn_arg.persistent_ns_dir, fn_arg.ns_type>>
            /\ fn_res.mnt = [at |-> fn_res.path, ns_type |-> fn_arg.ns_type, ns |-> "new"]

\* setup of a uts namespace in a root directory of its own returned Ok
C26_Witness ==
    /\ fn_res.result = "Ok" /\ fn_res.worker = "joined"
    /\ fn_arg.ns_type = "uts" /\ fn_arg.persistent_ns_dir = "/tmp/uts"
    /\ fn_res.mnt # <<>>

\* C34: setup calls unshare on the thread it spawned and never on the calling
\* thread; in that thread unshare comes before the bind mount; setup returns
\* when the thread has ended; and every failure, of create_dir_all, of the
\* creation of the file, of the open, of unshare, of the mount or of join,
\* makes setup return Err.
C34_UnshareOnWorker ==
    [][/\ fn_res'.caller_ns = "origin"
       /\ fn_res'.thread_ns # fn_res.thread_ns =>
            fn_res.worker = "running" /\ fn_res.mnt = <<>>
       /\ fn_res'.mnt # fn_res.mnt =>
            fn_res.thread_ns = "new" /\ fn_res'.mnt.ns = "new"
       /\ fn_res'.pc = "returned" =>
            /\ fn_res'.worker \in {"none", "joined"}
            /\ fn_res'.worker = "none" => fn_res'.thread_ns = "origin"
            /\ fn_arg.fail # "none" => fn_res'.result = "Err"]_vars

\* setup returned Err after its thread had unshared and had failed to mount,
\* or after its thread had panicked
C34_Witness ==
    /\ fn_res.pc = "returned" /\ fn_res.result = "Err" /\ fn_res.worker = "joined"
    /\ \/ fn_arg.fail = "mount" /\ fn_res.thread_ns = "new" /\ fn_res.mnt = <<>>
       \/ fn_arg.fail = "join"

\* ------------------------------------------------------------ stdio, checked
NextStdio ==
    \/ \E t \in Threads : do_create_container_storages(t, {1}, {<<>>}, {"e1"})
    \/ \E t \in Threads : do_create_container_locked(t, BOOLEAN)
    \/ \E t \in Threads : close_stdin(t, {"e1"})
    \/ \E t \in Threads : do_write_stream_lookup(t, {"e1"}, 0..MaxLen)
    \/ \E t \in Threads : do_write_stream_write(t)
    \/ \E t \in Threads : do_read_stream_lookup(t, {"e1"}, 0..MaxLen)
    \/ \E t \in Threads : do_read_stream_read(t)

SpecStdio == Init /\ [][NextStdio]_vars

\* a process that the call of thread record r can have found
FoundBy(r, p) ==
    /\ r.cid \in DOMAIN containers
    /\ p \in DOMAIN containers[r.cid].processes
    /\ containers[r.cid].processes[p].exec_id = r.eid

\* C27: WriteStdin takes term_master if set, else parent_stdin; ReadStdout
\* takes term_master if set, else parent_stdout; ReadStderr takes term_master
\* if set, else parent_stderr; when that slot is none the call fails, with EIO
\* for a write and EINVAL for a read, and goes on to no read or write.
C27_PtyDisplacesPipes ==
    [][/\ \A t \in Threads :
            (th[t].pc = "idle" /\ th'[t].pc \in {"ws_write", "rs_read"}) =>
                LET p == containers[th'[t].cid].processes[th'[t].pid]
                    pipe == IF th'[t].op = "WriteStdin" THEN p.parent_stdin
                            ELSE IF th'[t].op = "ReadStdout" THEN p.parent_stdout
                            ELSE p.parent_stderr
                IN
                /\ FoundBy(th'[t], th'[t].pid)
                /\ th'[t].fd # -1
                /\ th'[t].fd = IF p.term_master # -1 THEN p.term_master ELSE pipe
       /\ reply'.stage = "nofd" =>
            /\ reply'.op \in {"WriteStdin", "ReadStdout", "ReadStderr"}
            /\ reply'.err = IF reply'.op = "WriteStdin" THEN "EIO" ELSE "EINVAL"
            /\ \E p \in DOMAIN containers[reply'.cid].processes :
                /\ FoundBy(reply', p)
                /\ containers[reply'.cid].processes[p].term_master = -1
                /\ reply'.op = "WriteStdin" =>
                    containers[reply'.cid].processes[p].parent_stdin = -1
                /\ reply'.op = "ReadStdout" =>
                    containers[reply'.cid].processes[p].parent_stdout = -1
                /\ reply'.op = "ReadStderr" =>
                    containers[reply'.cid].processes[p].parent_stderr = -1
            /\ \A t \in Threads : th[t].pc = "idle" => th'[t].pc = "idle"]_vars

\* one thread is about to read from the pty master of a process that has
\* pipes as well, and a WriteStdin to the same process has failed because
\* CloseStdin has cleared term_master and parent_stdin since
C27_Witness ==
    /\ reply.op = "WriteStdin" /\ reply.stage = "nofd" /\ reply.err = "EIO"
    /\ \E t \in Threads :
        /\ th[t].pc = "rs_read" /\ th[t].cid = reply.cid /\ th[t].eid = reply.eid
        /\ th[t].fd \notin {containers[th[t].cid].processes[th[t].pid].parent_stdout,
                            containers[th[t].cid].processes[th[t].pid].parent_stderr}

\* C28: a successful WriteStdin reports the number of bytes its one write
\* returned, 0 when the write returned EAGAIN, and never more than the length
\* of the request data; any other error of the write is EIO.
C28_WrittenLength ==
    reply.op = "WriteStdin" =>
        /\ reply.stage = "written" => reply.status = "OK" /\ reply.wlen = reply.n
        /\ reply.stage = "EAGAIN" => reply.status = "OK" /\ reply.wlen = 0
        /\ reply.stage = "write" => reply.status # "OK" /\ reply.err = "EIO"
        /\ reply.status = "OK" =>
            reply.stage \in {"written", "EAGAIN"} /\ reply.wlen <= reply.len

\* a short write
C28_Witness ==
    /\ reply.op = "WriteStdin" /\ reply.stage = "written"
    /\ reply.n > 0 /\ reply.n < reply.len /\ reply.wlen = reply.n

\* C29: a read that returned n > 0 bytes is answered with exactly those n
\* bytes, at most len; a read that returned 0 bytes is an error; EAGAIN is
\* answered with an empty buffer; any other errno is an error.
C29_OneRead ==
    reply.op \in {"ReadStdout", "ReadStderr"} =>
        /\ reply.stage = "data" =>
            /\ reply.status = "OK" /\ reply.n > 0 /\ reply.n <= reply.len
            /\ reply.data = [i \in 1..reply.n |-> i]
        /\ reply.stage = "eof" => reply.status # "OK" /\ reply.err = "ErrorCode"
        /\ reply.stage = "EAGAIN" => reply.status = "OK" /\ reply.data = <<>>
        /\ reply.stage = "error" => reply.status # "OK"
        /\ reply.status = "OK" =>
            /\ reply.stage \in {"data", "EAGAIN"}
            /\ reply.data = <<>> => reply.stage = "EAGAIN"
        /\ (reply.stage \in {"data", "eof"} /\ reply.n = 0) => reply.status # "OK"

\* a read that returned fewer bytes than the buffer holds
C29_Witness ==
    /\ reply.op = "ReadStdout" /\ reply.stage = "data"
    /\ reply.n = 1 /\ reply.len = 2 /\ Len(reply.data) = 1

\* C30: CloseStdin closes term_master and then parent_stdin, whichever are
\* present, and sets both slots to none in the step that closes them; it
\* leaves the other descriptors of the process, and every other process, as
\* they were, so that a second CloseStdin closes nothing and succeeds;
\* CloseStdin for an unknown container or process replies InvalidArgument and
\* changes nothing.
C30_CloseStdinFrame ==
    [][reply'.op = "CloseStdin" =>
        IF \E p \in Pids : FoundBy(reply', p)
        THEN LET old == containers[reply'.cid].processes[reply'.pid]
                 new == containers'[reply'.cid].processes[reply'.pid]
                 present == SelectSeq(<<"term_master", "parent_stdin">>,
                                      LAMBDA slot : old[slot] # -1)
             IN
             /\ reply'.status = "OK"
             /\ FoundBy(reply', reply'.pid)
             /\ reply'.closed = present
             /\ fdtab' = fdtab \ {old[present[i]] : i \in DOMAIN present}
             /\ new = [old EXCEPT !.term_master = -1, !.parent_stdin = -1]
             /\ \A c \in DOMAIN containers : \A p \in DOMAIN containers[c].processes :
                    (c # reply'.cid \/ p # reply'.pid) =>
                        containers'[c].processes[p] = containers[c].processes[p]
             /\ DOMAIN containers' = DOMAIN containers
        ELSE /\ reply'.status = "InvalidArgument"
             /\ UNCHANGED <<sandboxVars, kernelVars>>]_vars

\* CloseStdin has closed the pty master and the stdin pipe of a process
C30_Witness ==
    /\ reply.op = "CloseStdin" /\ reply.status = "OK"
    /\ reply.closed = <<"term_master", "parent_stdin">>
    /\ containers[reply.cid].processes[reply.pid].parent_stdout \in fdtab

\* ------------------------------------------- container queries, checked
NextQuery ==
    \/ \E t \in Threads : do_create_container_storages(t, {1}, {<<>>}, {"e1"})
    \/ \E t \in Threads : do_create_container_locked(t, BOOLEAN)
    \/ \E t \in Threads : do_exec_process(t, {"e2"}, {FALSE})
    \/ \E t \in Threads : list_processes_lock(t)
    \/ \E t \in Threads : list_processes_ps(t)
    \/ \E t \in Threads : update_container(t)
    \/ \E t \in Threads : stats_container(t)
    \/ \E t \in Threads : tty_win_resize(t, {"e1"})
    \/ \E t \in Threads : lock_poisoned(t)

SpecQuery == Init /\ [][NextQuery]_vars

\* C31: a ListProcesses with format "table" does not hold the sandbox lock
\* while ps runs.
C31_NoLockDuringPs ==
    \A t \in Threads : th[t].pc = "lp_ps" => lock # t

QueryOps == {"ListProcesses", "UpdateContainer", "StatsContainer", "TtyWinResize"}

\* the container, or for TtyWinResize the process, of call r is not registered
UnknownId(r) ==
    IF r.op = "TtyWinResize" THEN find_process(r.cid, r.eid, FALSE) = {}
    ELSE r.cid \notin DOMAIN containers

\* C33: ListProcesses, UpdateContainer, StatsContainer and TtyWinResize on a
\* container or process that is not registered reply NotFound: their thread
\* does not panic, the sandbox state is unchanged and the mutex stays usable.
C33_UnknownIdIsNotFound ==
    [][\A t \in Threads :
        LET r == IF th'[t].pc = "idle" THEN reply' ELSE th'[t] IN
        (th[t].pc = "idle" /\ r.op \in QueryOps /\ UnknownId(r))
            => /\ th'[t].pc = "idle"
               /\ reply'.status = "NotFound"
               /\ lock' = NoThread
               /\ UNCHANGED sandboxVars]_vars

\* ------------------------------------ container removal, termination checked
NextRemoveFair ==
    \/ \E t \in Threads : do_create_container_storages(t, ContainerIds, {<<>>}, {""})
    \/ \E t \in Threads : do_create_container_locked(t, {FALSE})
    \/ \E t \in Threads : do_remove_container_sync(t)
    \/ \E t \in Threads : do_remove_container_sync_destroyed(t)
    \/ \E t \in Threads : do_remove_container_spawn(t)
    \/ \E w \in Workers : worker_lock(w)
    \/ \E w \in Workers : worker_destroyed(w)
    \/ \E t \in Threads : do_remove_container_recv(t)
    \/ \E t \in Threads : do_remove_container_timeout(t)
    \/ \E t \in Threads : do_remove_container_relock(t)

\* recv_timeout returns, with a value or without; a thread that waits for the
\* mutex gets it when it is free again and again; ctr.destroy() may never return
FairRemove ==
    /\ \A t \in Threads :
        WF_vars(do_remove_container_recv(t) \/ do_remove_container_timeout(t))
    /\ \A t \in Threads : SF_vars(do_remove_container_relock(t))
    /\ \A w \in Workers : SF_vars(worker_lock(w))

SpecRemoveFair == Init /\ [][NextRemoveFair]_vars /\ FairRemove

\* C32: a RemoveContainer with a timeout returns, whether or not ctr.destroy()
\* ever returns.
C32_AlwaysReturns ==
    \A t \in Threads :
        (th[t].op = "RemoveContainer" /\ th[t].timeout > 0) ~> (th[t].pc = "idle")

\* C36: a descriptor that a WriteStdin, ReadStdout, ReadStderr or WaitProcess
\* copied under the lock is still open when the write or read is issued on it.
C36_NoUseAfterClose ==
    \A t \in Threads :
        th[t].pc \in {"ws_write", "rs_read", "wp_read"} => th[t].fd \in fdtab

\* -------------------------------------------- CopyFile with `..`, checked
NextCopyDotDot ==
    \E t \in SandboxThreads : do_copy_file(t, DotDotRequests)

SpecCopyDotDot == Init /\ [][NextCopyDotDot]_vars

\* C38: a CopyFile creates or changes no file and no directory outside
\* CONTAINER_BASE, also when the path has `..` components, and the staging
\* file of its target is the staging file of no other target.
C38_StaysInsideBase ==
    [][reply'.op = "CopyFile" =>
        /\ \A p \in DOMAIN fs_files :
            fs_files'[p] # fs_files[p] => p.dir \notin {"../x"}
        /\ \A d \in DOMAIN fs_dirs :
            fs_dirs'[d] # fs_dirs[d] => d \notin {"../x"}
        /\ \A q \in DOMAIN fs_files :
            (q # reply'.req.path /\ q.ext # "tmp") =>
                set_extension(q, "tmp") # set_extension(reply'.req.path, "tmp")]_vars

\* ------------------------------------------------ lock discipline, checked
NextLock ==
    \/ \E t \in SandboxThreads : create_sandbox_setup(t, {<<>>})
    \/ \E t \in SandboxThreads : create_sandbox_storages(t)
    \/ \E t \in SandboxThreads : create_sandbox_mounts(t)
    \/ \E t \in Threads : do_create_container_storages(t, {1}, {<<>>}, {""})
    \/ \E t \in Threads : do_create_container_locked(t, {FALSE})
    \/ \E t \in RemoveThreads : do_remove_container_sync(t)
    \/ \E t \in RemoveThreads : do_remove_container_sync_destroyed(t)
    \/ \E t \in RemoveThreads : do_remove_container_spawn(t)
    \/ \E w \in Workers : worker_lock(w)
    \/ \E w \in Workers : worker_destroyed(w)
    \/ \E t \in RemoveThreads : do_remove_container_recv(t)
    \/ \E t \in RemoveThreads : do_remove_container_timeout(t)
    \/ \E t \in RemoveThreads : do_remove_container_relock(t)

\* every syscall and library call returns, and a thread that waits for the
\* mutex gets it when it is free again and again
FairLock ==
    /\ \A t \in SandboxThreads :
        SF_vars(create_sandbox_storages(t)) /\ SF_vars(create_sandbox_mounts(t))
    /\ \A t \in Threads : SF_vars(do_create_container_locked(t, {FALSE}))
    /\ \A t \in RemoveThreads :
        /\ WF_vars(do_remove_container_sync_destroyed(t))
        /\ WF_vars(do_remove_container_recv(t) \/ do_remove_container_timeout(t))
        /\ SF_vars(do_remove_container_relock(t))
    /\ \A w \in Workers : SF_vars(worker_lock(w)) /\ WF_vars(worker_destroyed(w))

SpecLock == Init /\ [][NextLock]_vars /\ FairLock

\* the positions at which a handler is about to lock the sandbox, or waits
\* for its worker
WaitingPcs == {"cc_lock", "cs_storages", "cs_mounts", "rc_recv", "rc_relock"}

====
